---- MODULE Spec2Model ----
(***************************************************************************)
(* A model of the local persistence and remote-sync layer of the Mermaid   *)
(* project IDE: the GitHub adapter (src/src/utils/eventBus.js), the        *)
(* normalization layer (src/src/utils/normalization.js) and the IndexedDB  *)
(* record store (src/src/concepts/storageConcept.js).                      *)
(*                                                                         *)
(* The module holds several specifications over one set of variables.      *)
(* Each specification drives one group of variables and pins the others.   *)
(*   SpecFetch  one call of _githubFetch against a scripted remote         *)
(*   SpecCodec  putContents' encoding followed by getContents' decoding    *)
(*   SpecNorm   toDiagramLD / toProjectLD followed by normalize*           *)
(*   Spec       the record store under interleaved asynchronous callers    *)
(***************************************************************************)
EXTENDS Integers, Sequences, FiniteSets, TLC

VARIABLES
    \* ---- _githubFetch ----
    script,       \* the responses the remote gives, request by request
    retries,      \* parameter `retries`
    backoff,      \* parameter `backoff`
    fetchPc,      \* "idle" | "loop" | "sleep" | "done"
    loopI,        \* the loop variable i
    requests,     \* number of fetch() calls issued so far
    lastError,    \* the variable lastError (NoError while undefined)
    waitTime,     \* the wait computed by the rate-limit branch
    waits,        \* the sequence of _sleep(ms) calls performed
    fetchResult,  \* what the call returned or threw
    \* ---- unicodeBtoa / atob ----
    codecPc, content, encoded, decoded,
    \* ---- normalization ----
    normPc, normKind, simpleIn, ldDoc, simpleOut,
    ldAgain,      \* toDiagramLD / toProjectLD applied to its own result
    \* ---- record store ----
    stores, keyGen, callers,
    \* ---- sync queue and sync engine ----
    enqueued,     \* history: the pending queue items in the order enqueued
    pass,         \* the queue reader: one sync pass over a project's items
    remote,       \* the file in the remote repository
    \* ---- getTreeSha ----
    tree,         \* one call of getTreeSha: its path, the listing, its outcome
    \* ---- lookup by project ----
    written,      \* history: the record each diagram was last written with
    \* ---- init ----
    schema,       \* the database on disk: version, object stores, indexes
    conn,         \* state.db, the connections opened and the calls of init()
    \* ---- concepts of the user interface ----
    dc,           \* the diagram concept: its state, the call heard, the events emitted
    bus,          \* event buses: their subscribers and the calls a notify made
    ui            \* the view state of the UI concept

fetchVars == <<script, retries, backoff, fetchPc, loopI, requests, lastError,
               waitTime, waits, fetchResult>>
codecVars == <<codecPc, content, encoded, decoded>>
normVars  == <<normPc, normKind, simpleIn, ldDoc, simpleOut, ldAgain>>
storeVars == <<stores, keyGen, callers>>
syncVars  == <<enqueued, pass, remote>>
frontVars == <<dc, bus, ui>>
auxVars   == <<tree, written, schema, conn, frontVars>>
vars == <<fetchVars, codecVars, normVars, storeVars, syncVars, auxVars>>

\* What a step of one component leaves alone.
OnlyFetch == UNCHANGED <<codecVars, normVars, storeVars, syncVars, auxVars>>
OnlyCodec == UNCHANGED <<fetchVars, normVars, storeVars, syncVars, auxVars>>
OnlyNorm  == UNCHANGED <<fetchVars, codecVars, storeVars, syncVars, auxVars>>
OnlyStore == UNCHANGED <<fetchVars, codecVars, normVars, syncVars, auxVars>>

\* The sync queue and the sync engine are not in play.
SyncIdle == enqueued = <<>> /\ pass = <<>> /\ remote = <<>>

\* No call of getTreeSha, no lookup history, no database in play.
TreeIdle == tree = <<>>
WrittenIdle == written = <<>>
SchemaIdle == schema = <<>>
ConnIdle == conn = <<>>

\* No concept of the user interface in play.
DcIdle == dc = <<>>
BusIdle == bus = <<>>
UiIdle == ui = <<>>
FrontIdle == DcIdle /\ BusIdle /\ UiIdle

AuxIdle == TreeIdle /\ WrittenIdle /\ SchemaIdle /\ ConnIdle /\ FrontIdle

-----------------------------------------------------------------------------
(* JavaScript values shared by the components.                             *)

\* `undefined` and NaN where a number is expected.
Undefined == -2
NaN == -1

DigitChars == <<"0", "1", "2", "3", "4", "5", "6", "7", "8", "9">>

IsDigit(c) == \E d \in 1..10 : DigitChars[d] = c

DigitVal(c) == (CHOOSE d \in 1..10 : DigitChars[d] = c) - 1

\* String(n) of a template literal `${n}`, as a sequence of characters.
RECURSIVE NatToStr(_)
NatToStr(n) ==
    IF n < 10 THEN <<DigitChars[n + 1]>>
    ELSE NatToStr(n \div 10) \o <<DigitChars[(n % 10) + 1]>>

ToStr(v) ==
    IF v = Undefined THEN <<"u", "n", "d", "e", "f", "i", "n", "e", "d">>
    ELSE IF v = NaN THEN <<"N", "a", "N">>
    ELSE NatToStr(v)

\* parseInt(s, 10): the value of the longest prefix of digits, NaN if none.
RECURSIVE ParseDigits(_, _)
ParseDigits(s, acc) ==
    IF s = <<>> \/ ~IsDigit(Head(s)) THEN acc
    ELSE ParseDigits(Tail(s), (acc * 10) + DigitVal(Head(s)))

parseInt(s) ==
    IF s = <<>> \/ ~IsDigit(Head(s)) THEN NaN ELSE ParseDigits(s, 0)

RECURSIVE Pow2(_)
Pow2(n) == IF n = 0 THEN 1 ELSE 2 * Pow2(n - 1)

-----------------------------------------------------------------------------
(* _githubFetch: src/src/utils/eventBus.js lines 68-122.                   *)

DefaultRetries == 3
DefaultBackoff == 1000

\* Largest `retries` argument explored (the default, 3, is among them).
MaxRetries == 3

\* The remote is asked at most `retries` times; one more response is
\* scripted so that "the response the next request would get" is defined.
ScriptLen == MaxRetries + 1

NoRetryAfter == <<>>

\* status 0: the request failed at network level, fetch() rejects.
Resp(status, retryAfter, body) ==
    [status |-> status, retryAfter |-> retryAfter, body |-> body]

Responses ==
    { Resp(200, NoRetryAfter, <<>>),
      Resp(204, NoRetryAfter, <<>>),
      Resp(404, NoRetryAfter, <<"Not", "Found">>),
      Resp(0,   NoRetryAfter, <<>>),
      Resp(429, NoRetryAfter, <<"rate", "limit", "exceeded">>),
      Resp(429, <<"2">>, <<"rate", "limit", "exceeded">>),
      Resp(429, <<"s", "o", "o", "n">>, <<"rate", "limit", "exceeded">>),
      Resp(429, NoRetryAfter, <<"see", "error", "403", "docs">>),
      Resp(403, NoRetryAfter, <<"Resource", "not", "accessible">>),
      Resp(403, <<"2">>, <<"secondary", "rate", "limit">>) }

\* A version of line 89 that also takes 409 for a rate limit.
IsRateLimitOrConflict(r) == r.status \in {403, 409, 429}

IsRateLimit(r) == r.status = 403 \/ r.status = 429

\* response.ok
IsOk(r) == r.status >= 200 /\ r.status <= 299

\* Once the remote gives an answer that is not a rate limit it keeps giving it.
Scripts ==
    { s \in [1..ScriptLen -> Responses] :
        \A k \in 1..(ScriptLen - 1) : ~IsRateLimit(s[k]) => s[k + 1] = s[k] }

NoError == [status |-> Undefined, body |-> <<>>]

Pending == [kind |-> "pending", type |-> "", status |-> Undefined, body |-> <<>>]

Returned(kind) == [kind |-> kind, type |-> "", status |-> Undefined, body |-> <<>>]

Thrown(type, status, body) ==
    [kind |-> "throw", type |-> type, status |-> status, body |-> body]

\* lastError.message.includes('403'): the message is
\* `[GitHub API Error] ${status}: ${body.message}`.
MessageIncludes403(err) ==
    err.status = 403 \/ \E k \in 1..Len(err.body) : err.body[k] = "403"

\* A version of line 97 whose backoff grows linearly.
ComputeWaitTimeLinear(b, i, retryAfter) ==
    IF retryAfter # NoRetryAfter /\ parseInt(retryAfter) # NaN
    THEN parseInt(retryAfter) * 1000
    ELSE b * (i + 1)

\* Lines 96-104: the wait after the rate-limited response of iteration i.
ComputeWaitTime(b, i, retryAfter) ==
    IF retryAfter # NoRetryAfter /\ parseInt(retryAfter) # NaN
    THEN parseInt(retryAfter) * 1000
    ELSE b * Pow2(i)

FetchInit ==
    /\ script \in Scripts
    /\ retries \in 0..MaxRetries
    /\ backoff = DefaultBackoff
    /\ fetchPc = "loop"
    /\ loopI = 0
    /\ requests = 0
    /\ lastError = NoError
    /\ waitTime = 0
    /\ waits = <<>>
    /\ fetchResult = Pending

\* Line 78 with a successful response: lines 80-86.
FetchOk ==
    /\ fetchPc = "loop" /\ loopI < retries
    /\ LET response == script[requests + 1] IN
        /\ IsOk(response)
        /\ fetchResult' = Returned(IF response.status = 204 THEN "null" ELSE "json")
    /\ requests' = requests + 1
    /\ fetchPc' = "done"
    /\ UNCHANGED <<script, retries, backoff, loopI, lastError, waitTime, waits>>
    /\ OnlyFetch

\* A version of line 78 that catches the rejection and tries again.
FetchNetworkErrorRetried ==
    /\ fetchPc = "loop" /\ loopI < retries
    /\ script[requests + 1].status = 0
    /\ requests' = requests + 1
    /\ lastError' = [status |-> 0, body |-> <<>>]
    /\ waitTime' = ComputeWaitTime(backoff, loopI, NoRetryAfter)
    /\ fetchPc' = "sleep"
    /\ UNCHANGED <<script, retries, backoff, loopI, waits, fetchResult>>
    /\ OnlyFetch

\* Line 78 when fetch() itself rejects: the rejection leaves the function.
FetchNetworkError ==
    /\ fetchPc = "loop" /\ loopI < retries
    /\ script[requests + 1].status = 0
    /\ requests' = requests + 1
    /\ fetchResult' = Thrown("network", 0, <<>>)
    /\ fetchPc' = "done"
    /\ UNCHANGED <<script, retries, backoff, loopI, lastError, waitTime, waits>>
    /\ OnlyFetch

\* A version of lines 89-108 that does not sleep after the response of the
\* last attempt.
FetchRateLimitedLastUnwaited ==
    /\ fetchPc = "loop" /\ loopI < retries
    /\ LET response == script[requests + 1] IN
        /\ IsRateLimit(response)
        /\ lastError' = [status |-> response.status, body |-> response.body]
        /\ waitTime' = ComputeWaitTime(backoff, loopI, response.retryAfter)
    /\ requests' = requests + 1
    /\ IF loopI + 1 < retries
       THEN fetchPc' = "sleep" /\ loopI' = loopI
       ELSE fetchPc' = "loop" /\ loopI' = loopI + 1
    /\ UNCHANGED <<script, retries, backoff, waits, fetchResult>>
    /\ OnlyFetch

\* Lines 89-106: a 403 or 429 response, up to the call of _sleep.
FetchRateLimited ==
    /\ fetchPc = "loop" /\ loopI < retries
    /\ LET response == script[requests + 1] IN
        /\ IsRateLimit(response)
        /\ lastError' = [status |-> response.status, body |-> response.body]
        /\ waitTime' = ComputeWaitTime(backoff, loopI, response.retryAfter)
    /\ requests' = requests + 1
    /\ fetchPc' = "sleep"
    /\ UNCHANGED <<script, retries, backoff, loopI, waits, fetchResult>>
    /\ OnlyFetch

\* A version of lines 107-108 that goes round the loop without counting.
FetchSleepUncounted ==
    /\ fetchPc = "sleep"
    /\ waits' = Append(waits, waitTime)
    /\ fetchPc' = "loop"
    /\ UNCHANGED <<script, retries, backoff, loopI, requests, lastError, waitTime, fetchResult>>
    /\ OnlyFetch

\* Lines 107-108: the sleep elapses and the loop continues with i + 1.
FetchSleep ==
    /\ fetchPc = "sleep"
    /\ waits' = Append(waits, waitTime)
    /\ loopI' = loopI + 1
    /\ fetchPc' = "loop"
    /\ UNCHANGED <<script, retries, backoff, requests, lastError, waitTime, fetchResult>>
    /\ OnlyFetch

\* A version of lines 111-113 that treats the response as a rate limit.
FetchOtherErrorRetried ==
    /\ fetchPc = "loop" /\ loopI < retries
    /\ LET response == script[requests + 1] IN
        /\ ~IsOk(response) /\ ~IsRateLimit(response) /\ response.status # 0
        /\ lastError' = [status |-> response.status, body |-> response.body]
        /\ waitTime' = ComputeWaitTime(backoff, loopI, response.retryAfter)
    /\ requests' = requests + 1
    /\ fetchPc' = "sleep"
    /\ UNCHANGED <<script, retries, backoff, loopI, waits, fetchResult>>
    /\ OnlyFetch

\* Lines 111-113: any other response that is not ok fails at once.
FetchOtherError ==
    /\ fetchPc = "loop" /\ loopI < retries
    /\ LET response == script[requests + 1] IN
        /\ ~IsOk(response) /\ ~IsRateLimit(response) /\ response.status # 0
        /\ fetchResult' = Thrown("api", response.status, response.body)
    /\ requests' = requests + 1
    /\ fetchPc' = "done"
    /\ UNCHANGED <<script, retries, backoff, loopI, lastError, waitTime, waits>>
    /\ OnlyFetch

\* Lines 116-121: the loop has ended without a return.
FetchExhausted ==
    /\ fetchPc = "loop" /\ loopI >= retries
    /\ fetchResult' =
         IF lastError # NoError /\ MessageIncludes403(lastError)
         THEN Thrown("scope", 403, <<>>)
         ELSE Thrown("exhausted", lastError.status, lastError.body)
    /\ fetchPc' = "done"
    /\ UNCHANGED <<script, retries, backoff, loopI, requests, lastError, waitTime, waits>>
    /\ OnlyFetch

_githubFetch ==
    \/ FetchOk
    \/ FetchNetworkError
    \/ FetchRateLimited
    \/ FetchSleep
    \/ FetchOtherError
    \/ FetchExhausted

FetchIdle ==
    /\ script = <<>> /\ retries = 0 /\ backoff = 0 /\ fetchPc = "idle"
    /\ loopI = 0 /\ requests = 0 /\ lastError = NoError /\ waitTime = 0
    /\ waits = <<>> /\ fetchResult = Pending

-----------------------------------------------------------------------------
(* Content transcoding: unicodeBtoa (eventBus.js lines 32-37) used by      *)
(* putContents (line 216), and atob used by getContents (line 166).        *)
(* A string is its sequence of UTF-16 code units, a base64 text its        *)
(* sequence of 6-bit digits with Pad for '='.                              *)

\* Longest content string explored.
MaxContentLen == 3

\* 'A', 'e' with acute accent, the CJK character U+4E2D, and the two
\* surrogates of U+1F600.
CodeUnits == {65, 233, 20013, 55357, 56832}

Pad == 64

IsHighSurrogate(u) == u >= 55296 /\ u <= 56319
IsLowSurrogate(u) == u >= 56320 /\ u <= 57343

\* The code points of a UTF-16 string; a lone surrogate reads as U+FFFD.
RECURSIVE CodePoints(_)
CodePoints(str) ==
    IF str = <<>> THEN <<>>
    ELSE IF IsHighSurrogate(str[1]) /\ Len(str) >= 2 /\ IsLowSurrogate(str[2])
    THEN <<65536 + ((str[1] - 55296) * 1024) + (str[2] - 56320)>>
            \o CodePoints(SubSeq(str, 3, Len(str)))
    ELSE IF IsHighSurrogate(str[1]) \/ IsLowSurrogate(str[1])
    THEN <<65533>> \o CodePoints(Tail(str))
    ELSE <<str[1]>> \o CodePoints(Tail(str))

Utf8Bytes(cp) ==
    IF cp < 128 THEN <<cp>>
    ELSE IF cp < 2048 THEN <<192 + (cp \div 64), 128 + (cp % 64)>>
    ELSE IF cp < 65536
    THEN <<224 + (cp \div 4096), 128 + ((cp \div 64) % 64), 128 + (cp % 64)>>
    ELSE <<240 + (cp \div 262144), 128 + ((cp \div 4096) % 64),
           128 + ((cp \div 64) % 64), 128 + (cp % 64)>>

RECURSIVE Utf8Of(_)
Utf8Of(cps) ==
    IF cps = <<>> THEN <<>> ELSE Utf8Bytes(Head(cps)) \o Utf8Of(Tail(cps))

\* new TextEncoder().encode(str)
TextEncode(str) == Utf8Of(CodePoints(str))

\* btoa of the binary string whose character codes are `bytes`.
RECURSIVE btoa(_)
btoa(bytes) ==
    IF bytes = <<>> THEN <<>>
    ELSE IF Len(bytes) = 1
    THEN <<bytes[1] \div 4, (bytes[1] % 4) * 16, Pad, Pad>>
    ELSE IF Len(bytes) = 2
    THEN <<bytes[1] \div 4, ((bytes[1] % 4) * 16) + (bytes[2] \div 16),
           (bytes[2] % 16) * 4, Pad>>
    ELSE <<bytes[1] \div 4, ((bytes[1] % 4) * 16) + (bytes[2] \div 16),
           ((bytes[2] % 16) * 4) + (bytes[3] \div 64), bytes[3] % 64>>
           \o btoa(SubSeq(bytes, 4, Len(bytes)))

\* atob: the binary string, one character per decoded byte.
RECURSIVE atob(_)
atob(b64) ==
    IF Len(b64) < 4 THEN <<>>
    ELSE LET d == SubSeq(b64, 1, 4)
             b1 == (d[1] * 4) + (d[2] \div 16)
             b2 == ((d[2] % 16) * 16) + (d[3] \div 4)
             b3 == ((d[3] % 4) * 64) + d[4]
         IN (IF d[3] = Pad THEN <<b1>>
             ELSE IF d[4] = Pad THEN <<b1, b2>>
             ELSE <<b1, b2, b3>>) \o atob(SubSeq(b64, 5, Len(b64)))

unicodeBtoa(str) == btoa(TextEncode(str))

\* getContents, line 166: content: atob(response.content)
getContentsDecode(b64) == atob(b64)

ContentStrings ==
    UNION { [1..n -> CodeUnits] : n \in 0..MaxContentLen }

CodecInit ==
    /\ content \in ContentStrings
    /\ codecPc = "start"
    /\ encoded = <<>>
    /\ decoded = <<>>

\* putContents builds the request body; the remote stores the file.
PutContentsEncode ==
    /\ codecPc = "start"
    /\ encoded' = unicodeBtoa(content)
    /\ codecPc' = "stored"
    /\ UNCHANGED <<content, decoded>>
    /\ OnlyCodec

\* getContents reads the file back and decodes response.content.
GetContentsDecode ==
    /\ codecPc = "stored"
    /\ decoded' = getContentsDecode(encoded)
    /\ codecPc' = "done"
    /\ UNCHANGED <<content, encoded>>
    /\ OnlyCodec

CodecIdle ==
    /\ codecPc = "idle" /\ content = <<>> /\ encoded = <<>> /\ decoded = <<>>


-----------------------------------------------------------------------------
(* Normalization layer: src/src/utils/normalization.js.                    *)
(* An object is a function from its own property names to values; a        *)
(* property that holds `undefined` is in the domain with an undefined      *)
(* value of its type.                                                      *)

UndefStr == "<undefined>"
UndefTime == [kind |-> "undefined", t |-> 0]

\* A Date object, and a millisecond number as Date.now() gives.
DateObj(t) == [kind |-> "Date", t |-> t]
Millis(t) == [kind |-> "number", t |-> t]
IsoString(t) == [kind |-> "iso", t |-> t]

EmptyObj == [k \in {} |-> 0]

Has(obj, k) == k \in DOMAIN obj

\* obj.k, `undefined` when the property is missing.
Prop(obj, k, undef) == IF k \in DOMAIN obj THEN obj[k] ELSE undef

\* { ...a, ...b }: a later property wins.
Spread(a, b) == b @@ a

\* const { k1, k2, ...rest } = obj
Rest(obj, keys) == [k \in (DOMAIN obj) \ keys |-> obj[k]]

\* Truthiness of a numeric id, of a string and of a timestamp value.
TruthyNum(n) == n # Undefined /\ n # NaN /\ n # 0
TruthyTime(ts) == ts.kind # "undefined" /\ ~(ts.kind = "number" /\ ts.t = 0)

\* `urn:mermaid-ide:${kind}:${id}` as its ':'-separated segments.
Urn(kind, id) == <<"urn", "mermaid-ide", kind, ToStr(id)>>

\* parseInt(urn.split(':').pop())
UrnId(urn) == parseInt(urn[Len(urn)])

\* value ? new Date(value).toISOString() : undefined
ToIso(ts) == IF TruthyTime(ts) THEN IsoString(ts.t) ELSE UndefTime

\* value ? new Date(value) : undefined
ToDate(ts) == IF TruthyTime(ts) THEN DateObj(ts.t) ELSE UndefTime

Context == "https://mermaid-ide.org/context/v1.jsonld"
DiagramType == "bfo:BFO_0000031"
ProjectType == "bfo:BFO_0000027"

DiagramKnownKeys ==
    {"id", "projectId", "title", "content", "createdAt", "updatedAt",
     "lastModifiedRemoteSha"}

DiagramLDKeys ==
    {"@context", "@id", "@type", "schema:name", "schema:text",
     "bfo:BFO_0000129", "schema:dateCreated", "schema:dateModified"}

ProjectKnownKeys == {"id", "name", "createdAt", "updatedAt"}

ProjectLDKeys ==
    {"@context", "@id", "@type", "schema:name", "schema:dateCreated",
     "schema:dateModified"}

\* A version of lines 59-84 without line 78: projectId is not kept as a
\* property of the stored object.
toDiagramLDUnindexed(diagram) ==
    IF Has(diagram, "@context") THEN diagram
    ELSE LET id == Prop(diagram, "id", Undefined)
             title == Prop(diagram, "title", UndefStr)
             ldObject ==
                 Spread(  ("@context" :> Context)
                       @@ ("@id" :> Urn("diagram", id))
                       @@ ("@type" :> DiagramType)
                       @@ ("schema:name" :> title)
                       @@ ("schema:text" :> Prop(diagram, "content", UndefStr))
                       @@ ("bfo:BFO_0000129" :>
                             ("@id" :> Urn("project", Prop(diagram, "projectId", Undefined))))
                       @@ ("schema:dateCreated" :> ToIso(Prop(diagram, "createdAt", UndefTime)))
                       @@ ("schema:dateModified" :> ToIso(Prop(diagram, "updatedAt", UndefTime)))
                       @@ ("lastModifiedRemoteSha" :> Prop(diagram, "lastModifiedRemoteSha", UndefStr))
                       @@ ("_name_for_index" :> title),
                       Rest(diagram, DiagramKnownKeys))
         IN IF TruthyNum(id) THEN Spread(ldObject, "id" :> id) ELSE ldObject

\* Lines 59-84.
toDiagramLD(diagram) ==
    IF Has(diagram, "@context") THEN diagram
    ELSE LET id == Prop(diagram, "id", Undefined)
             projectId == Prop(diagram, "projectId", Undefined)
             title == Prop(diagram, "title", UndefStr)
             rest == Rest(diagram, DiagramKnownKeys)
             ldObject ==
                 Spread(  ("@context" :> Context)
                       @@ ("@id" :> Urn("diagram", id))
                       @@ ("@type" :> DiagramType)
                       @@ ("schema:name" :> title)
                       @@ ("schema:text" :> Prop(diagram, "content", UndefStr))
                       @@ ("bfo:BFO_0000129" :> ("@id" :> Urn("project", projectId)))
                       @@ ("schema:dateCreated" :> ToIso(Prop(diagram, "createdAt", UndefTime)))
                       @@ ("schema:dateModified" :> ToIso(Prop(diagram, "updatedAt", UndefTime)))
                       @@ ("lastModifiedRemoteSha" :> Prop(diagram, "lastModifiedRemoteSha", UndefStr))
                       @@ ("_name_for_index" :> title)
                       @@ ("projectId" :> projectId),
                       rest)
         IN IF TruthyNum(id) THEN Spread(ldObject, "id" :> id) ELSE ldObject

\* A version of lines 91-112 that converts whatever it is given and lets
\* the semantic fields win over the remaining properties.
toProjectLDRebuilt(project) ==
    LET id == Prop(project, "id", Undefined)
        name == Prop(project, "name", UndefStr)
        ldObject ==
            Spread(Rest(project, ProjectKnownKeys),
                      ("@context" :> Context)
                   @@ ("@id" :> Urn("project", id))
                   @@ ("@type" :> ProjectType)
                   @@ ("schema:name" :> name)
                   @@ ("schema:dateCreated" :> ToIso(Prop(project, "createdAt", UndefTime)))
                   @@ ("schema:dateModified" :> ToIso(Prop(project, "updatedAt", UndefTime)))
                   @@ ("_name_for_index" :> name))
    IN IF TruthyNum(id) THEN Spread(ldObject, "id" :> id) ELSE ldObject

\* Lines 91-112.
toProjectLD(project) ==
    IF Has(project, "@context") THEN project
    ELSE LET id == Prop(project, "id", Undefined)
             name == Prop(project, "name", UndefStr)
             rest == Rest(project, ProjectKnownKeys)
             ldObject ==
                 Spread(  ("@context" :> Context)
                       @@ ("@id" :> Urn("project", id))
                       @@ ("@type" :> ProjectType)
                       @@ ("schema:name" :> name)
                       @@ ("schema:dateCreated" :> ToIso(Prop(project, "createdAt", UndefTime)))
                       @@ ("schema:dateModified" :> ToIso(Prop(project, "updatedAt", UndefTime)))
                       @@ ("_name_for_index" :> name),
                       rest)
         IN IF TruthyNum(id) THEN Spread(ldObject, "id" :> id) ELSE ldObject

\* Lines 14-30. (A missing record, `undefined`, is EmptyObj and is returned as is.)
normalizeDiagram(data) ==
    IF Has(data, "@context") /\ Prop(data, "@type", UndefStr) = DiagramType
    THEN Spread(  ("id" :> UrnId(data["@id"]))
               @@ ("projectId" :> UrnId(data["bfo:BFO_0000129"]["@id"]))
               @@ ("title" :> data["schema:name"])
               @@ ("content" :> data["schema:text"])
               @@ ("createdAt" :> ToDate(data["schema:dateCreated"]))
               @@ ("updatedAt" :> ToDate(data["schema:dateModified"])),
               Rest(data, DiagramLDKeys))
    ELSE data

\* A version of lines 38-52 that lists repositoryPath among the fields it
\* returns.
normalizeProjectListed(data) ==
    IF Has(data, "@context") /\ Prop(data, "@type", UndefStr) = ProjectType
    THEN Spread(  ("id" :> UrnId(data["@id"]))
               @@ ("name" :> data["schema:name"])
               @@ ("createdAt" :> ToDate(data["schema:dateCreated"]))
               @@ ("updatedAt" :> ToDate(data["schema:dateModified"]))
               @@ ("repositoryPath" :> Prop(data, "repositoryPath", UndefStr)),
               Rest(data, ProjectLDKeys))
    ELSE data

\* Lines 38-52.
normalizeProject(data) ==
    IF Has(data, "@context") /\ Prop(data, "@type", UndefStr) = ProjectType
    THEN Spread(  ("id" :> UrnId(data["@id"]))
               @@ ("name" :> data["schema:name"])
               @@ ("createdAt" :> ToDate(data["schema:dateCreated"]))
               @@ ("updatedAt" :> ToDate(data["schema:dateModified"])),
               Rest(data, ProjectLDKeys))
    ELSE data

\* An optional property of an input record.
Opt(k, values) == {EmptyObj} \cup {k :> v : v \in values}

NormIds == {1, 2, 10}
NormTimes == {DateObj(5), Millis(5)}

SimpleDiagrams ==
    { a @@ b @@ c @@ d @@ e @@ f @@ g @@ h :
        a \in Opt("id", NormIds),
        b \in {"projectId" :> p : p \in {1, 2}},
        c \in {"title" :> t : t \in {"A", "B"}},
        d \in {"content" :> "graph TD;A-->B;"},
        e \in Opt("createdAt", NormTimes),
        f \in Opt("updatedAt", {DateObj(7)}),
        g \in Opt("lastModifiedRemoteSha", {"abc123"}),
        h \in Opt("thumbnail", {"png"}) }

SimpleProjects ==
    { a @@ b @@ c @@ d @@ e @@ f :
        a \in Opt("id", NormIds),
        b \in {"name" :> n : n \in {"Demo", "Docs"}},
        c \in Opt("createdAt", NormTimes),
        d \in Opt("updatedAt", {DateObj(7)}),
        e \in {"gitProvider" :> g : g \in {"local", "github"}},
        f \in Opt("repositoryPath", {"owner/repo"}) }

denormalize(kind, record) ==
    IF kind = "diagram" THEN toDiagramLD(record) ELSE toProjectLD(record)

normalize(kind, record) ==
    IF kind = "diagram" THEN normalizeDiagram(record) ELSE normalizeProject(record)

NormInit ==
    /\ normKind \in {"diagram", "project"}
    /\ simpleIn \in (IF normKind = "diagram" THEN SimpleDiagrams ELSE SimpleProjects)
    /\ normPc = "start"
    /\ ldDoc = EmptyObj
    /\ simpleOut = EmptyObj
    /\ ldAgain = EmptyObj

Denormalize ==
    /\ normPc = "start"
    /\ ldDoc' = denormalize(normKind, simpleIn)
    /\ normPc' = "semantic"
    /\ UNCHANGED <<normKind, simpleIn, simpleOut, ldAgain>>
    /\ OnlyNorm

Normalize ==
    /\ normPc = "semantic"
    /\ simpleOut' = normalize(normKind, ldDoc)
    /\ normPc' = "done"
    /\ UNCHANGED <<normKind, simpleIn, ldDoc, ldAgain>>
    /\ OnlyNorm

\* The converted record is handed to the conversion once more (lines 61
\* and 93).
DenormalizeAgain ==
    /\ normPc = "semantic"
    /\ ldAgain' = denormalize(normKind, ldDoc)
    /\ normPc' = "again"
    /\ UNCHANGED <<normKind, simpleIn, ldDoc, simpleOut>>
    /\ OnlyNorm

NormIdle ==
    /\ normPc = "idle" /\ normKind = "" /\ simpleIn = EmptyObj
    /\ ldDoc = EmptyObj /\ simpleOut = EmptyObj /\ ldAgain = EmptyObj


-----------------------------------------------------------------------------
(* The record store: src/src/concepts/storageConcept.js.                   *)
(* An object store is a function from primary keys to stored objects.      *)
(* Every helper (_get, _put, _delete, the cursor and index reads) runs in  *)
(* a transaction of its own on one object store, so each is one step;      *)
(* addDiagram and addProject await one _put and then issue a second.       *)

\* Asynchronous calls of addDiagram / addProject that may be in flight.
NumCallers == 2

\* The key generators stop handing out keys beyond these.
MaxProjectKey == 1

\* ... and beyond this when the projects store is explored on its own.
MaxProjectsAlone == 2
MaxDiagramKey == 2
MaxQueueKey == 3

\* Number of versions the file in the remote repository goes through.
MaxRemoteVersion == 3

Callers == 1..NumCallers
Titles == {"A", "B"}

ProjectInputs ==
    { ("name" :> "Demo") @@ ("gitProvider" :> "local"),
      ("name" :> "Docs") @@ ("gitProvider" :> "github")
                         @@ ("repositoryPath" :> "owner/repo") }

\* Project ids a caller may name: those the store can hold and one more.
ProjectIds == 1..(MaxProjectKey + 1)

DiagramInputs ==
    { ("projectId" :> p) @@ ("title" :> t) @@ ("content" :> "graph TD;A-->B;") :
        p \in ProjectIds, t \in Titles }

\* A value IndexedDB accepts as a key (numbers, not NaN, and strings).
ValidNumKey(n) == n # Undefined /\ n # NaN
ValidStrKey(x) == x # UndefStr

\* The key of a record in the unique index of its store (lines 66 and 82),
\* <<>> when the key path yields no valid key: the record is then not in
\* the index.
ProjectIndexKey(item) ==
    IF Has(item, "_name_for_index") /\ ValidStrKey(item["_name_for_index"])
    THEN <<item["_name_for_index"]>>
    ELSE <<>>

DiagramIndexKey(item) ==
    IF /\ Has(item, "projectId") /\ ValidNumKey(item["projectId"])
       /\ Has(item, "_name_for_index") /\ ValidStrKey(item["_name_for_index"])
    THEN <<item["projectId"], item["_name_for_index"]>>
    ELSE <<>>

IndexKey(storeName, item) ==
    IF storeName = "projects" THEN ProjectIndexKey(item)
    ELSE IF storeName = "diagrams" THEN DiagramIndexKey(item)
    ELSE <<>>

\* store.put(item) on a store with keyPath 'id' and autoIncrement: the key
\* is item.id when that is a valid key, the generator's number otherwise.
HasOwnKey(item) == Has(item, "id") /\ item["id"] # Undefined

PutKey(item, gen) == IF HasOwnKey(item) THEN item["id"] ELSE gen

\* A unique index rejects a record whose index key another record holds.
ConstraintViolated(storeName, store, item, key) ==
    /\ IndexKey(storeName, item) # <<>>
    /\ \E k \in (DOMAIN store) \ {key} :
          IndexKey(storeName, store[k]) = IndexKey(storeName, item)

PutError(storeName, store, item, gen) ==
    IF HasOwnKey(item) /\ item["id"] = NaN THEN "DataError"
    ELSE IF ConstraintViolated(storeName, store, item, PutKey(item, gen))
    THEN "ConstraintError"
    ELSE ""

\* A put that merges the item into the record its key already has.
PutStoreMerged(store, item, gen) ==
    LET key == PutKey(item, gen)
    IN [k \in (DOMAIN store) \cup {key} |->
            IF k = key
            THEN Spread(IF key \in DOMAIN store THEN store[key] ELSE EmptyObj,
                        Spread(item, "id" :> key))
            ELSE store[k]]

\* The store after a successful put: the record is added or replaced and
\* the generated key is written into the stored object.
PutStore(store, item, gen) ==
    LET key == PutKey(item, gen)
    IN [k \in (DOMAIN store) \cup {key} |->
            IF k = key THEN Spread(item, "id" :> key) ELSE store[k]]

PutGen(item, gen) ==
    IF HasOwnKey(item) THEN (IF item["id"] >= gen THEN item["id"] + 1 ELSE gen)
    ELSE gen + 1

\* A delete that takes a key range starting at the key.
DeleteFromOn(store, key) ==
    [k \in { j \in DOMAIN store : j < key } |-> store[k]]

DeleteFrom(store, key) == [k \in (DOMAIN store) \ {key} |-> store[k]]

\* A caller is one asynchronous workflow: it is idle, between the two puts
\* of addDiagram / addProject, or holding a record a read gave it. `ld` is
\* the object in flight or held; once a call has settled `newId` is the key
\* it resolved with, or `error` the name of the error it rejected with and
\* `ld` the object whose put failed.
Idle == [pc |-> "idle", ld |-> EmptyObj, newId |-> Undefined, error |-> ""]
Resolved(key) == [Idle EXCEPT !.newId = key]
Rejected(error, item) == [Idle EXCEPT !.error = error, !.ld = item]

StoreNames == {"projects", "diagrams", "syncQueue"}

\* The three object stores of the database (lines 56-88).
projects == stores["projects"]
diagrams == stores["diagrams"]
syncQueue == stores["syncQueue"]

StoreInit ==
    /\ stores = [n \in StoreNames |-> EmptyObj]
    /\ keyGen = [n \in StoreNames |-> 1]
    /\ callers = [c \in Callers |-> Idle]

\* The record store is not in play.
StoreIdle ==
    /\ stores = EmptyObj /\ keyGen = EmptyObj /\ callers = EmptyObj

\* _put (lines 188-197) when store.put succeeds.
PutSucceeds(storeName, item) ==
    /\ stores' = [stores EXCEPT
                    ![storeName] = PutStore(@, item, keyGen[storeName])]
    /\ keyGen' = [keyGen EXCEPT ![storeName] = PutGen(item, @)]

\* The largest key the generator of a store may hand out.
MaxKeyOf(storeName) ==
    IF storeName = "projects" THEN MaxProjectsAlone
    ELSE IF storeName = "diagrams" THEN MaxDiagramKey
    ELSE MaxQueueKey

\* A put that needs a generated key is explored only while keys remain.
KeyAvailable(storeName, item) ==
    HasOwnKey(item) \/ keyGen[storeName] <= MaxKeyOf(storeName)

\* Lines 227-229 and 275-277: the record is converted and put a first time.
AddPut1(c, op, storeName, ld) ==
    /\ callers[c].pc = "idle"
    /\ KeyAvailable(storeName, ld)
    /\ LET error == PutError(storeName, stores[storeName], ld, keyGen[storeName])
       IN IF error # ""
          THEN /\ callers' = [callers EXCEPT ![c] = Rejected(error, ld)]
               /\ UNCHANGED <<stores, keyGen>>
          ELSE /\ PutSucceeds(storeName, ld)
               /\ callers' = [callers EXCEPT ![c] =
                     [pc |-> op, ld |-> ld,
                      newId |-> PutKey(ld, keyGen[storeName]), error |-> ""]]
    /\ OnlyStore

\* A version of lines 232-233 that sets the id and leaves the URN alone.
WithNewIdOnly(kind, ld, newId) == Spread(ld, "id" :> newId)

\* Lines 232-233 and 278-279: the id and the URN are set on the object the
\* first put was given.
WithNewId(kind, ld, newId) ==
    Spread(ld, ("id" :> newId) @@ ("@id" :> Urn(kind, newId)))

\* Lines 234 and 280: the object is put a second time and the call settles
\* with the outcome of that put.
AddPut2(c, op, storeName, kind) ==
    /\ callers[c].pc = op
    /\ LET ld == WithNewId(kind, callers[c].ld, callers[c].newId)
           error == PutError(storeName, stores[storeName], ld, keyGen[storeName])
       IN IF error # ""
          THEN /\ callers' = [callers EXCEPT ![c] = Rejected(error, ld)]
               /\ UNCHANGED <<stores, keyGen>>
          ELSE /\ PutSucceeds(storeName, ld)
               /\ callers' = [callers EXCEPT ![c] =
                     Resolved(PutKey(ld, keyGen[storeName]))]
    /\ OnlyStore

\* { id: data.id, ...data }
WithIdProp(data) == Spread("id" :> Prop(data, "id", Undefined), data)

\* addDiagram, lines 224-235.
AddDiagramPut1(c, diagramData) ==
    AddPut1(c, "addDiagram", "diagrams", toDiagramLD(WithIdProp(diagramData)))

AddDiagramPut2(c) == AddPut2(c, "addDiagram", "diagrams", "diagram")

\* addProject, lines 273-281.
AddProjectPut1(c, projectData) ==
    AddPut1(c, "addProject", "projects", toProjectLD(WithIdProp(projectData)))

AddProjectPut2(c) == AddPut2(c, "addProject", "projects", "project")

\* _get (lines 165-179): the stored object, normalized; `undefined` when the
\* key is not in the store.
GetRecord(storeName, key) ==
    LET raw == Prop(stores[storeName], key, EmptyObj)
    IN IF storeName = "projects" THEN normalizeProject(raw)
       ELSE IF storeName = "diagrams" THEN normalizeDiagram(raw)
       ELSE raw

Holding(record) ==
    IF record = EmptyObj THEN Idle
    ELSE [pc |-> "holding", ld |-> record, newId |-> Undefined, error |-> ""]

\* getDiagram, line 242: the caller keeps the record it was given.
GetDiagram(c, diagramId) ==
    /\ callers[c].pc = "idle"
    /\ callers' = [callers EXCEPT ![c] = Holding(GetRecord("diagrams", diagramId))]
    /\ UNCHANGED <<stores, keyGen>>
    /\ OnlyStore

\* A version of line 364 that resolves with the stored objects as they are.
DiagramsByProjectIdRaw(projectId) ==
    { diagrams[k] :
        k \in { j \in DOMAIN diagrams :
                  Prop(diagrams[j], "projectId", Undefined) = projectId } }

\* getDiagramsByProjectId, lines 353-372: index.getAll(projectId), each
\* record normalized.
DiagramsByProjectId(projectId) ==
    { normalizeDiagram(diagrams[k]) :
        k \in { j \in DOMAIN diagrams :
                  Prop(diagrams[j], "projectId", Undefined) = projectId } }

\* The caller keeps one record of the list it was given.
GetDiagramsByProjectId(c, projectId) ==
    /\ callers[c].pc = "idle"
    /\ \E record \in DiagramsByProjectId(projectId) :
          callers' = [callers EXCEPT ![c] = Holding(record)]
    /\ UNCHANGED <<stores, keyGen>>
    /\ OnlyStore

\* updateDiagram, lines 249-252, given the record the caller holds with a
\* title of its choice.
UpdateDiagram(c, title) ==
    /\ callers[c].pc = "holding"
    /\ LET diagramLD == toDiagramLD(Spread(callers[c].ld, "title" :> title))
           error == PutError("diagrams", diagrams, diagramLD, keyGen["diagrams"])
       IN /\ KeyAvailable("diagrams", diagramLD)
          /\ IF error # ""
             THEN /\ callers' = [callers EXCEPT ![c] = Rejected(error, diagramLD)]
                  /\ UNCHANGED <<stores, keyGen>>
             ELSE /\ PutSucceeds("diagrams", diagramLD)
                  /\ callers' = [callers EXCEPT ![c] =
                        Resolved(PutKey(diagramLD, keyGen["diagrams"]))]
    /\ OnlyStore

\* _delete, lines 206-215.
Delete(storeName, key) ==
    /\ stores' = [stores EXCEPT ![storeName] = DeleteFrom(@, key)]
    /\ UNCHANGED <<keyGen, callers>>
    /\ OnlyStore

\* deleteDiagram, line 266.
DeleteDiagram(diagramId) == Delete("diagrams", diagramId)

\* deleteProject, line 298.
DeleteProject(projectId) == Delete("projects", projectId)

\* deleteDiagramsByProjectId, lines 305-324: one transaction whose cursor
\* over the projectId index deletes every record it visits.
DeleteDiagramsByProjectId(projectId) ==
    /\ stores' = [stores EXCEPT !["diagrams"] =
          [k \in { j \in DOMAIN @ : Prop(@[j], "projectId", Undefined) # projectId }
             |-> @[k]]]
    /\ UNCHANGED <<keyGen, callers>>
    /\ OnlyStore

\* A caller holding a project record a read gave it.
HoldingProject(record) ==
    IF record = EmptyObj THEN Idle
    ELSE [pc |-> "holdingProject", ld |-> record, newId |-> Undefined, error |-> ""]

\* getProject, line 259.
GetProject(c, projectId) ==
    /\ callers[c].pc = "idle"
    /\ callers' = [callers EXCEPT ![c] = HoldingProject(GetRecord("projects", projectId))]
    /\ UNCHANGED <<stores, keyGen>>
    /\ OnlyStore

\* getAllProjects, lines 150-156: _getAll('projects'), each record
\* normalized.
AllProjects == { normalizeProject(projects[k]) : k \in DOMAIN projects }

\* The caller keeps one record of the list it was given.
GetAllProjects(c) ==
    /\ callers[c].pc = "idle"
    /\ \E record \in AllProjects :
          callers' = [callers EXCEPT ![c] = HoldingProject(record)]
    /\ UNCHANGED <<stores, keyGen>>
    /\ OnlyStore

\* updateProject, lines 288-291, given the record the caller holds with a
\* name of its choice.
UpdateProject(c, name) ==
    /\ callers[c].pc = "holdingProject"
    /\ LET projectLD == toProjectLD(Spread(callers[c].ld, "name" :> name))
           error == PutError("projects", projects, projectLD, keyGen["projects"])
       IN /\ KeyAvailable("projects", projectLD)
          /\ IF error # ""
             THEN /\ callers' = [callers EXCEPT ![c] = Rejected(error, projectLD)]
                  /\ UNCHANGED <<stores, keyGen>>
             ELSE /\ PutSucceeds("projects", projectLD)
                  /\ callers' = [callers EXCEPT ![c] =
                        Resolved(PutKey(projectLD, keyGen["projects"]))]
    /\ OnlyStore

\* addProject while the store has handed out fewer than MaxProjectKey keys.
AddFirstProject(c, projectData) ==
    /\ keyGen["projects"] <= MaxProjectKey
    /\ AddProjectPut1(c, projectData)

\* The page is closed or reloaded: calls in flight and everything held in
\* memory are gone, the database stays.
Reload ==
    /\ callers' = [c \in Callers |-> Idle]
    /\ UNCHANGED <<stores, keyGen>>
    /\ OnlyStore

Init == StoreInit /\ FetchIdle /\ CodecIdle /\ NormIdle /\ SyncIdle /\ AuxIdle

Next ==
    \/ \E c \in Callers, p \in ProjectInputs : AddFirstProject(c, p)
    \/ \E c \in Callers : AddProjectPut2(c)
    \/ \E c \in Callers, d \in DiagramInputs : AddDiagramPut1(c, d)
    \/ \E c \in Callers : AddDiagramPut2(c)
    \/ \E c \in Callers, id \in 1..MaxDiagramKey : GetDiagram(c, id)
    \/ \E c \in Callers, p \in ProjectIds : GetDiagramsByProjectId(c, p)
    \/ \E c \in Callers, p \in ProjectIds : GetProject(c, p)
    \/ \E c \in Callers : GetAllProjects(c)
    \/ \E c \in Callers, t \in Titles : UpdateDiagram(c, t)
    \/ \E id \in 1..MaxDiagramKey : DeleteDiagram(id)
    \/ \E p \in ProjectIds : DeleteProject(p)
    \/ \E p \in ProjectIds : DeleteDiagramsByProjectId(p)
    \/ Reload

Spec == Init /\ [][Next]_vars

\* The projects store on its own.
ProjectNames == {"Demo", "Docs"}

NextProjects ==
    \/ \E c \in Callers, p \in ProjectInputs : AddProjectPut1(c, p)
    \/ \E c \in Callers : AddProjectPut2(c)
    \/ \E c \in Callers, p \in 1..MaxProjectsAlone : GetProject(c, p)
    \/ \E c \in Callers : GetAllProjects(c)
    \/ \E c \in Callers, name \in ProjectNames : UpdateProject(c, name)
    \/ \E p \in 1..MaxProjectsAlone : DeleteProject(p)
    \/ Reload

SpecProjects == Init /\ [][NextProjects]_vars

-----------------------------------------------------------------------------
(* The sync queue: storageConcept.js lines 326-346, and the workflow that  *)
(* saves a diagram of a remote-linked project. The workflow itself is in   *)
(* synchronizations.js, which is not among the sources; it is modelled     *)
(* from the specification (sections 3 and 4.4) over the store's own        *)
(* operations: the diagram is updated, then the operation is enqueued.     *)

\* The content a diagram is created with, and the contents edits give it.
InitialContent == "graph TD;A-->B;"
EditedContents == {"graph TD;A-->C;", "graph LR;A-->B;"}

\* The sync-queue item of an update: target, operation and a snapshot of
\* the payload.
UpdateItem(diagram) ==
    ("targetKind" :> "diagram") @@ ("targetId" :> diagram["id"])
        @@ ("operation" :> "update") @@ ("payload" :> diagram["content"])

\* The project a diagram record names is linked to a remote repository.
RemoteLinked(diagram) ==
    /\ diagram["projectId"] \in DOMAIN projects
    /\ Prop(normalizeProject(projects[diagram["projectId"]]), "gitProvider", "local")
          # "local"

\* First half of the save: updateDiagram (lines 249-252) with the record
\* the caller holds and the edited content.
SaveDiagramUpdate(c, text) ==
    /\ callers[c].pc = "holding"
    /\ RemoteLinked(callers[c].ld)
    /\ LET diagramData == Spread(callers[c].ld, "content" :> text)
           diagramLD == toDiagramLD(diagramData)
           error == PutError("diagrams", diagrams, diagramLD, keyGen["diagrams"])
       IN IF error # ""
          THEN /\ callers' = [callers EXCEPT ![c] = Rejected(error, diagramLD)]
               /\ UNCHANGED <<stores, keyGen>>
          ELSE /\ PutSucceeds("diagrams", diagramLD)
               /\ callers' = [callers EXCEPT ![c] =
                     [pc |-> "enqueue", ld |-> UpdateItem(diagramData),
                      newId |-> Undefined, error |-> ""]]
    /\ OnlyStore

\* addSyncQueueItem, line 339: _put('syncQueue', item). The history
\* `enqueued` takes the item as it was given, with the key the call
\* resolved with.
AddSyncQueueItem(c, item) ==
    /\ KeyAvailable("syncQueue", item)
    /\ Len(enqueued) < MaxQueueKey
    /\ LET error == PutError("syncQueue", syncQueue, item, keyGen["syncQueue"])
           key == PutKey(item, keyGen["syncQueue"])
       IN IF error # ""
          THEN /\ callers' = [callers EXCEPT ![c] = Rejected(error, item)]
               /\ UNCHANGED <<stores, keyGen, enqueued>>
          ELSE /\ PutSucceeds("syncQueue", item)
               /\ callers' = [callers EXCEPT ![c] = Resolved(key)]
               /\ enqueued' = Append(enqueued, Spread(item, "id" :> key))
    /\ UNCHANGED <<pass, remote, fetchVars, codecVars, normVars, auxVars>>

\* Second half of the save: the operation is enqueued.
SaveDiagramEnqueue(c) ==
    /\ callers[c].pc = "enqueue"
    /\ AddSyncQueueItem(c, callers[c].ld)

\* The store once addProject and addDiagram have persisted a project linked
\* to a repository and one diagram in it, with nothing waiting to be synced.
LinkedProject ==
    ("name" :> "Docs") @@ ("gitProvider" :> "github")
        @@ ("repositoryPath" :> "owner/repo")

FirstDiagram ==
    ("projectId" :> 1) @@ ("title" :> "A") @@ ("content" :> InitialContent)

QueueInit ==
    /\ stores =
         [n \in StoreNames |->
            IF n = "projects"
            THEN 1 :> WithNewId("project", toProjectLD(WithIdProp(LinkedProject)), 1)
            ELSE IF n = "diagrams"
            THEN 1 :> WithNewId("diagram", toDiagramLD(WithIdProp(FirstDiagram)), 1)
            ELSE EmptyObj]
    /\ keyGen = [n \in StoreNames |-> IF n = "syncQueue" THEN 1 ELSE 2]
    /\ callers = [c \in Callers |-> Idle]

InitQueue == QueueInit /\ FetchIdle /\ CodecIdle /\ NormIdle /\ SyncIdle /\ AuxIdle

NextQueue ==
    \/ \E c \in Callers, id \in 1..MaxDiagramKey : GetDiagram(c, id)
    \/ \E c \in Callers, text \in EditedContents : SaveDiagramUpdate(c, text)
    \/ \E c \in Callers : SaveDiagramEnqueue(c)
    \/ Reload

SpecQueue == InitQueue /\ [][NextQueue]_vars

-----------------------------------------------------------------------------
(* The sync queue as the store offers it: getSyncQueueItems,               *)
(* addSyncQueueItem and deleteSyncQueueItem (storageConcept.js lines       *)
(* 326-346) called with any item, and the reopening of the database.       *)

\* The records of an object store in ascending key order.
RECURSIVE InKeyOrder(_)
InKeyOrder(store) ==
    IF DOMAIN store = {} THEN <<>>
    ELSE LET k == CHOOSE j \in DOMAIN store : \A i \in DOMAIN store : j <= i
         IN <<store[k]>> \o InKeyOrder(DeleteFrom(store, k))

\* _getAll, lines 126-144: store.getAll().
_getAll(storeName) == InKeyOrder(stores[storeName])

\* The operation descriptors a caller enqueues, and the same descriptors
\* carrying an id of their own.
QueueDescriptors ==
    { ("targetKind" :> "diagram") @@ ("targetId" :> 1)
        @@ ("operation" :> "update") @@ ("payload" :> text) :
        text \in EditedContents }

QueueItems ==
    QueueDescriptors
      \cup { Spread(d, "id" :> id) : d \in QueueDescriptors, id \in 1..(MaxQueueKey - 1) }

\* The queue reader: what it is doing, the items it still has to drain and
\* how its pass ended.
PassState(pc, items, outcome) ==
    [pc |-> pc, items |-> items, outcome |-> outcome, sha |-> UndefStr]

PassIdle == PassState("idle", <<>>, "")

\* getSyncQueueItems, line 332: the reader is given the result of _getAll.
GetSyncQueueItems ==
    /\ pass.pc \in {"idle", "restarted", "read", "error"}
    /\ pass' = PassState("read", _getAll("syncQueue"), "")
    /\ UNCHANGED <<storeVars, enqueued, remote, fetchVars, codecVars, normVars, auxVars>>

\* deleteSyncQueueItem, line 346: _delete('syncQueue', itemId).
DeleteSyncQueueItem(itemId) ==
    /\ stores' = [stores EXCEPT !["syncQueue"] = DeleteFrom(@, itemId)]
    /\ enqueued' = SelectSeq(enqueued, LAMBDA item : item["id"] # itemId)
    /\ UNCHANGED <<keyGen, callers, pass, remote, fetchVars, codecVars, normVars, auxVars>>

\* onupgradeneeded, lines 56-88: an object store is created only when the
\* database does not have it yet.
\* A version of lines 56-88 that creates the three object stores anew.
UpgradeSchemaFresh(db) ==
    [n \in StoreNames \cup DOMAIN db |-> IF n \in StoreNames THEN EmptyObj ELSE db[n]]

UpgradeSchema(db) ==
    [n \in StoreNames \cup DOMAIN db |-> IF n \in DOMAIN db THEN db[n] ELSE EmptyObj]

\* The page is reloaded and init() opens the database again: everything in
\* memory is gone, the reader starts over.
Restart ==
    /\ callers' = [c \in Callers |-> Idle]
    /\ pass' = PassState("restarted", <<>>, "")
    /\ stores' = UpgradeSchema(stores)
    /\ UNCHANGED <<keyGen, enqueued, remote, fetchVars, codecVars, normVars, auxVars>>

SyncQueueInit ==
    /\ StoreInit
    /\ enqueued = <<>>
    /\ pass = PassIdle
    /\ remote = <<>>

InitSyncQueue == SyncQueueInit /\ FetchIdle /\ CodecIdle /\ NormIdle /\ AuxIdle

NextSyncQueue ==
    \/ \E c \in Callers, item \in QueueItems : AddSyncQueueItem(c, item)
    \/ \E itemId \in 1..MaxQueueKey : DeleteSyncQueueItem(itemId)
    \/ GetSyncQueueItems
    \/ Restart

SpecSyncQueue == InitSyncQueue /\ [][NextSyncQueue]_vars

-----------------------------------------------------------------------------
(* The sync engine draining the queue of one project through the adapter.  *)
(* The engine is in synchronizations.js, which is not among the sources:   *)
(* its pass is modelled from the specification (section 4.6). The store    *)
(* operations it calls and the adapter call (_githubFetch under            *)
(* putContents, eventBus.js lines 213-224) are the ones modelled above.    *)

\* The content hash of the n-th version of the remote file.
ShaNames == <<"sha-1", "sha-2", "sha-3", "sha-4", "sha-5">>
ShaOf(n) == ShaNames[n]

RemoteFile(version, text) == [version |-> version, content |-> text]

\* What the remote answers to a PUT: rate-limit responses, and then 409
\* while the sha of the request is not the file's, 200 or a server error
\* when it is; or no response at all.
ConflictResponse == Resp(409, NoRetryAfter, <<"sha", "does", "not", "match">>)
OkResponse == Resp(200, NoRetryAfter, <<>>)

FinalAnswers(stale) ==
    IF stale THEN {ConflictResponse, Resp(0, NoRetryAfter, <<>>)}
    ELSE {OkResponse, Resp(500, NoRetryAfter, <<"Server", "Error">>),
          Resp(0, NoRetryAfter, <<>>)}

PutScripts(stale) ==
    { [k \in 1..ScriptLen |->
         IF k <= n THEN Resp(429, NoRetryAfter, <<"rate", "limit", "exceeded">>)
         ELSE answer] :
      n \in 0..ScriptLen, answer \in FinalAnswers(stale) }

\* The hash the engine last recorded against a diagram.
LastKnownSha(diagramId) ==
    Prop(GetRecord("diagrams", diagramId), "lastModifiedRemoteSha", UndefStr)

\* The engine calls putContents for the first item it holds, with the
\* item's content and the last known remote hash.
PassCallAdapter ==
    /\ pass.pc = "read" /\ pass.items # <<>>
    /\ fetchPc \in {"idle", "done"}
    /\ LET item == Head(pass.items)
           sha == LastKnownSha(item["targetId"])
       IN /\ pass' = [pass EXCEPT !.pc = "calling", !.sha = sha]
          /\ script' \in PutScripts(sha # ShaOf(remote.version))
    /\ remote.version < MaxRemoteVersion
    /\ retries' = DefaultRetries /\ backoff' = DefaultBackoff
    /\ fetchPc' = "loop" /\ loopI' = 0 /\ requests' = 0
    /\ lastError' = NoError /\ waitTime' = 0 /\ waits' = <<>>
    /\ fetchResult' = Pending
    /\ UNCHANGED <<storeVars, enqueued, remote, codecVars, normVars, auxVars>>

\* Another writer changes the remote file: the hash the engine sent is
\* stale from now on, and a PUT still to be served is answered 409.
RemoteChanges ==
    /\ remote.version < MaxRemoteVersion
    /\ ~(pass.pc = "calling" /\ fetchPc = "done" /\ fetchResult.kind # "throw")
    /\ remote' = RemoteFile(remote.version + 1, "graph TD;X-->Y;")
    /\ script' = IF pass.pc = "calling"
                 THEN [k \in DOMAIN script |->
                         IF k > requests /\ IsOk(script[k])
                         THEN ConflictResponse ELSE script[k]]
                 ELSE script
    /\ UNCHANGED <<retries, backoff, fetchPc, loopI, requests, lastError,
                   waitTime, waits, fetchResult>>
    /\ UNCHANGED <<storeVars, enqueued, pass, codecVars, normVars, auxVars>>

\* The call succeeded: the remote holds the item's content under a new
\* hash, and the engine records that hash against the diagram
\* (updateDiagram, storageConcept.js lines 249-252).
PassItemSucceeded ==
    /\ pass.pc = "calling" /\ fetchPc = "done" /\ fetchResult.kind # "throw"
    /\ LET item == Head(pass.items)
           newSha == ShaOf(remote.version + 1)
           diagramData == Spread(GetRecord("diagrams", item["targetId"]),
                                 "lastModifiedRemoteSha" :> newSha)
       IN /\ remote' = RemoteFile(remote.version + 1, item["payload"])
          /\ PutSucceeds("diagrams", toDiagramLD(diagramData))
    /\ pass' = [pass EXCEPT !.pc = "recorded"]
    /\ UNCHANGED <<callers, enqueued, fetchVars, codecVars, normVars, auxVars>>

\* ... and then removes the item (deleteSyncQueueItem, line 346) and goes
\* on with the next one.
PassRemoveItem ==
    /\ pass.pc = "recorded"
    /\ LET itemId == Head(pass.items)["id"]
       IN /\ stores' = [stores EXCEPT !["syncQueue"] = DeleteFrom(@, itemId)]
          /\ enqueued' = SelectSeq(enqueued, LAMBDA item : item["id"] # itemId)
    /\ pass' = PassState("read", Tail(pass.items), "")
    /\ UNCHANGED <<keyGen, callers, remote, fetchVars, codecVars, normVars, auxVars>>

\* The call failed: the item stays in the queue and the pass stops, with a
\* conflict when the remote answered 409.
PassItemFailed ==
    /\ pass.pc = "calling" /\ fetchPc = "done" /\ fetchResult.kind = "throw"
    /\ pass' = PassState("error", <<>>,
                  IF fetchResult.type = "api" /\ fetchResult.status = 409
                  THEN "conflict" ELSE "transient")
    /\ UNCHANGED <<storeVars, enqueued, remote, fetchVars, codecVars, normVars, auxVars>>

\* No item is left: the pass reports success.
PassFinish ==
    /\ pass.pc = "read" /\ pass.items = <<>>
    /\ pass' = PassState("idle", <<>>, "success")
    /\ UNCHANGED <<storeVars, enqueued, remote, fetchVars, codecVars, normVars, auxVars>>

\* A diagram that was synced at the first version of the remote file and
\* has been edited twice since: both updates wait in the queue.
SyncedDiagram ==
    Spread(FirstDiagram, ("content" :> "graph LR;A-->B;")
                           @@ ("lastModifiedRemoteSha" :> ShaOf(1)))

PendingUpdate(key, text) ==
    Spread(UpdateItem(("id" :> 1) @@ ("content" :> text)), "id" :> key)

SyncInit ==
    /\ stores =
         [n \in StoreNames |->
            IF n = "projects"
            THEN 1 :> WithNewId("project", toProjectLD(WithIdProp(LinkedProject)), 1)
            ELSE IF n = "diagrams"
            THEN 1 :> WithNewId("diagram", toDiagramLD(WithIdProp(SyncedDiagram)), 1)
            ELSE (1 :> PendingUpdate(1, "graph TD;A-->C;"))
                   @@ (2 :> PendingUpdate(2, "graph LR;A-->B;"))]
    /\ keyGen = [n \in StoreNames |-> IF n = "syncQueue" THEN 3 ELSE 2]
    /\ callers = [c \in Callers |-> Idle]
    /\ enqueued = <<PendingUpdate(1, "graph TD;A-->C;"),
                    PendingUpdate(2, "graph LR;A-->B;")>>
    /\ pass = PassIdle
    /\ remote = RemoteFile(1, InitialContent)

InitSync == SyncInit /\ FetchIdle /\ CodecIdle /\ NormIdle /\ AuxIdle

NextSync ==
    \/ GetSyncQueueItems
    \/ PassCallAdapter
    \/ _githubFetch
    \/ PassItemSucceeded
    \/ PassRemoveItem
    \/ PassItemFailed
    \/ PassFinish
    \/ RemoteChanges

SpecSync == InitSync /\ [][NextSync]_vars

-----------------------------------------------------------------------------
(* Lookup of diagrams by project: getDiagramsByProjectId                   *)
(* (storageConcept.js lines 353-372) on a diagrams store as addDiagram     *)
(* and updateDiagram leave it, with the record each diagram was last       *)
(* written with kept as history.                                           *)

\* What has happened to one diagram: it was added as `first`, and then
\* perhaps read, given a title and content, and written back.
DiagramHistories ==
    { [first |-> d, updated |-> u, title |-> t, content |-> text] :
        d \in DiagramInputs, u \in BOOLEAN, t \in Titles,
        text \in {InitialContent} \cup EditedContents }

\* The record the diagram was last written with.
LastWritten(h) ==
    IF h.updated
    THEN [projectId |-> h.first["projectId"], title |-> h.title, content |-> h.content]
    ELSE [projectId |-> h.first["projectId"], title |-> h.first["title"],
          content |-> h.first["content"]]

\* addDiagram (lines 224-235) resolved with key k, and then updateDiagram
\* (lines 249-252) of the record getDiagram(k) returned.
AddedDiagram(k, d) ==
    Spread(WithNewId("diagram", toDiagramLD(WithIdProp(d)), k), "id" :> k)

PersistedDiagram(k, h) ==
    IF h.updated
    THEN LET diagramData == Spread(normalizeDiagram(AddedDiagram(k, h.first)),
                                   ("title" :> h.title) @@ ("content" :> h.content))
         IN Spread(toDiagramLD(diagramData), "id" :> k)
    ELSE AddedDiagram(k, h.first)

\* The histories of the diagrams of a store: no two diagrams were added
\* with the same title to the same project, and a diagram that was not
\* updated has nothing recorded for an update.
LookupHistories ==
    { hs \in UNION { [K -> DiagramHistories] : K \in SUBSET (1..MaxDiagramKey) } :
        /\ \A k \in DOMAIN hs :
              ~hs[k].updated =>
                 (hs[k].title = hs[k].first["title"] /\ hs[k].content = hs[k].first["content"])
        /\ \A j, k \in DOMAIN hs :
              j # k => DiagramIndexKey(PersistedDiagram(j, hs[j]))
                          # DiagramIndexKey(PersistedDiagram(k, hs[k])) }

LookupInit ==
    /\ \E hs \in LookupHistories :
          /\ written = [k \in DOMAIN hs |-> LastWritten(hs[k])]
          /\ stores = [n \in StoreNames |->
                         IF n = "diagrams"
                         THEN [k \in DOMAIN hs |-> PersistedDiagram(k, hs[k])]
                         ELSE EmptyObj]
    /\ keyGen = [n \in StoreNames |-> IF n = "diagrams" THEN MaxDiagramKey + 1 ELSE 1]
    /\ callers = [c \in Callers |-> Idle]

InitLookup ==
    /\ LookupInit /\ TreeIdle /\ SchemaIdle /\ ConnIdle /\ FrontIdle
    /\ FetchIdle /\ CodecIdle /\ NormIdle /\ SyncIdle

NextLookup ==
    \/ \E c \in Callers, p \in ProjectIds : GetDiagramsByProjectId(c, p)
    \/ Reload

SpecLookup == InitLookup /\ [][NextLookup]_vars

-----------------------------------------------------------------------------
(* The schema upgrade: request.onupgradeneeded (storageConcept.js lines    *)
(* 50-89) on a database an earlier version of the application left.        *)
(* schema is the version of the database, the names of the indexes of      *)
(* each object store, how often the routine has run and whether its last   *)
(* run was committed.                                                      *)

\* Line 13.
DB_VERSION == 3

MaxUpgradeRuns == 2

\* An object store this application never creates.
ForeignStore == "settings"

\* The index names lines 62-64 and 74-80 ask about.
KnownIndexes(n) ==
    CASE n = "projects" -> {"name", "schema:name", "_name_for_index"}
      [] n = "diagrams" -> {"projectId", "project_title", "project_schema_name",
                            "project_name_for_index"}
      [] n = "syncQueue" -> {}
      [] OTHER -> {"key"}

\* Records an earlier version may have left in a store: none, one in the
\* simple shape, one in the semantic shape, or (where the unique index was
\* not there to refuse it) two semantic records under the same name.
EarlierRecords(n) ==
    CASE n = "projects" ->
           { EmptyObj,
             1 :> (("id" :> 1) @@ ("name" :> "Demo")),
             1 :> Spread(toProjectLD(("id" :> 1) @@ ("name" :> "Demo")), "id" :> 1),
             (1 :> Spread(toProjectLD(("id" :> 1) @@ ("name" :> "Demo")), "id" :> 1))
               @@ (2 :> Spread(toProjectLD(("id" :> 2) @@ ("name" :> "Demo")), "id" :> 2)) }
      [] n = "diagrams" ->
           { EmptyObj,
             1 :> (("id" :> 1) @@ ("projectId" :> 1) @@ ("title" :> "A")
                     @@ ("content" :> InitialContent)),
             1 :> AddedDiagram(1, ("projectId" :> 1) @@ ("title" :> "A")
                                    @@ ("content" :> InitialContent)),
             (1 :> AddedDiagram(1, ("projectId" :> 1) @@ ("title" :> "A")
                                     @@ ("content" :> InitialContent)))
               @@ (2 :> AddedDiagram(2, ("projectId" :> 1) @@ ("title" :> "A")
                                          @@ ("content" :> InitialContent))) }
      [] n = "syncQueue" ->
           { EmptyObj } \cup { 1 :> Spread(d, "id" :> 1) : d \in QueueDescriptors }
      [] OTHER ->
           { EmptyObj, "theme" :> (("key" :> "theme") @@ ("value" :> "dark")) }

\* Two records of store n have the same key in the unique index of lines
\* 65 and 81.
SharedIndexKey(n, store) ==
    \E j, k \in DOMAIN store :
       /\ j # k
       /\ CASE n = "projects" ->
                 /\ Has(store[j], "_name_for_index") /\ Has(store[k], "_name_for_index")
                 /\ ProjectIndexKey(store[j]) = ProjectIndexKey(store[k])
            [] n = "diagrams" ->
                 /\ Has(store[j], "_name_for_index") /\ Has(store[k], "_name_for_index")
                 /\ Has(store[j], "projectId") /\ Has(store[k], "projectId")
                 /\ DiagramIndexKey(store[j]) = DiagramIndexKey(store[k])
            [] OTHER -> FALSE

UniqueIndexOf(n) ==
    CASE n = "projects" -> "_name_for_index"
      [] n = "diagrams" -> "project_name_for_index"
      [] OTHER -> ""

\* Lines 58-88, what they do to the indexes: deleteIndex and createIndex
\* under their guards, nothing for a store the routine does not name.
UpgradeIndexes(indexes) ==
    [n \in StoreNames \cup DOMAIN indexes |->
       LET old == IF n \in DOMAIN indexes THEN indexes[n] ELSE {}
       IN CASE n = "projects" ->
                 (old \ {"name", "schema:name"}) \cup {"_name_for_index"}
            [] n = "diagrams" ->
                 ((old \cup {"projectId"}) \ {"project_title", "project_schema_name"})
                    \cup {"project_name_for_index"}
            [] OTHER -> old]

\* createIndex with unique: true (lines 65, 81) fails with a ConstraintError
\* when the records of the store share a key, and the failure aborts the
\* upgrade transaction.
CreateIndexFails(db, indexes) ==
    \E n \in DOMAIN db :
       /\ UniqueIndexOf(n) # ""
       /\ UniqueIndexOf(n) \notin indexes[n]
       /\ SharedIndexKey(n, db[n])

\* The databases an earlier version may have left: none (version 0), or
\* any of the stores, each with some of the indexes and some records; a
\* unique index that is there has refused records with a shared key.
UpgradeInit ==
    /\ \E ns \in SUBSET (StoreNames \cup {ForeignStore}), v \in 0..(DB_VERSION - 1) :
       \E ip \in SUBSET KnownIndexes("projects"), id \in SUBSET KnownIndexes("diagrams") :
       \E rp \in EarlierRecords("projects"), rd \in EarlierRecords("diagrams") :
       \E rq \in EarlierRecords("syncQueue"), rf \in EarlierRecords(ForeignStore) :
          /\ (v = 0) = (ns = {})
          /\ stores = [n \in ns |-> CASE n = "projects" -> rp
                                      [] n = "diagrams" -> rd
                                      [] n = "syncQueue" -> rq
                                      [] OTHER -> rf]
          /\ schema = [version |-> v,
                       indexes |-> [n \in ns |-> CASE n = "projects" -> ip
                                                   [] n = "diagrams" -> id
                                                   [] OTHER -> KnownIndexes(n)],
                       runs |-> 0, committed |-> FALSE]
          /\ \A n \in ns :
                ~(UniqueIndexOf(n) \in schema.indexes[n] /\ SharedIndexKey(n, stores[n]))
    /\ keyGen = [n \in StoreNames |-> 1]
    /\ callers = [c \in Callers |-> Idle]

\* The upgrade transaction commits: the database has the stores and indexes
\* of lines 58-88 and the version asked for at line 47.
UpgradeCommits ==
    /\ schema.runs < MaxUpgradeRuns
    /\ ~CreateIndexFails(stores, schema.indexes)
    /\ stores' = UpgradeSchema(stores)
    /\ schema' = [version |-> DB_VERSION, indexes |-> UpgradeIndexes(schema.indexes),
                  runs |-> schema.runs + 1, committed |-> TRUE]
    /\ UNCHANGED <<keyGen, callers, fetchVars, codecVars, normVars, syncVars,
                   tree, written, conn, frontVars>>

\* The upgrade transaction aborts: the database stays as it was.
UpgradeAborts ==
    /\ schema.runs < MaxUpgradeRuns
    /\ CreateIndexFails(stores, schema.indexes)
    /\ schema' = [schema EXCEPT !.runs = @ + 1, !.committed = FALSE]
    /\ UNCHANGED <<storeVars, fetchVars, codecVars, normVars, syncVars,
                   tree, written, conn, frontVars>>

InitUpgrade ==
    /\ UpgradeInit /\ TreeIdle /\ WrittenIdle /\ ConnIdle /\ FrontIdle
    /\ FetchIdle /\ CodecIdle /\ NormIdle /\ SyncIdle

NextUpgrade == UpgradeCommits \/ UpgradeAborts

SpecUpgrade == InitUpgrade /\ [][NextUpgrade]_vars

-----------------------------------------------------------------------------
(* The shared connection: init (storageConcept.js lines 41-118), the       *)
(* onclose and onversionchange handlers it installs, and the guard every   *)
(* store operation starts with (lines 128-131, 167-168, 190-191, 208-209). *)
(* conn.db is state.db (0 for null, else the number of a handle),          *)
(* conn.handles the connections the browser has handed out, each "open"    *)
(* or "closed", conn.opens the open requests issued and conn.calls what    *)
(* each caller's call is doing.                                            *)

MaxOpens == 3

NoHandle == 0

Call(pc, op, handle, error, stale) ==
    [pc |-> pc, op |-> op, handle |-> handle, error |-> error, stale |-> stale]

NoCall == Call("idle", "", NoHandle, "", FALSE)

IsOpen(h) == h # NoHandle /\ conn.handles[h] = "open"

ConnInit ==
    conn = [db |-> NoHandle, handles |-> <<>>, opens |-> 0,
            calls |-> [c \in Callers |-> NoCall]]

OnlyConn ==
    UNCHANGED <<fetchVars, codecVars, normVars, storeVars, syncVars, tree, written, schema,
                frontVars>>

\* init, lines 43-45: a handle is there, the promise resolves with it.
InitReturnsHandle(c) ==
    /\ conn.calls[c].pc = "idle"
    /\ conn.db # NoHandle
    /\ conn' = [conn EXCEPT !.calls[c] =
                   Call("resolved", "init", conn.db, "", ~IsOpen(conn.db))]
    /\ OnlyConn

\* init, line 47: no handle, indexedDB.open is called.
InitOpens(c) ==
    /\ conn.calls[c].pc = "idle"
    /\ conn.db = NoHandle
    /\ conn.opens < MaxOpens
    /\ conn' = [conn EXCEPT !.opens = @ + 1,
                            !.calls[c] = Call("opening", "init", NoHandle, "", FALSE)]
    /\ OnlyConn

\* request.onsuccess, lines 92-109: the new connection becomes state.db and
\* the promise resolves with it.
OpenSuccess(c) ==
    /\ conn.calls[c].pc = "opening"
    /\ LET h == Len(conn.handles) + 1
       IN conn' = [conn EXCEPT !.db = h,
                               !.handles = Append(@, "open"),
                               !.calls[c] = Call("resolved", "init", h, "", FALSE)]
    /\ OnlyConn

\* request.onerror, lines 111-115.
OpenError(c) ==
    /\ conn.calls[c].pc = "opening"
    /\ conn' = [conn EXCEPT !.calls[c] = Call("rejected", "init", NoHandle, "open failed", FALSE)]
    /\ OnlyConn

\* The browser closes connection h abnormally and fires `close` at it: the
\* handler of lines 96-99 sets state.db to null.
ConnectionClosed(h) ==
    /\ IsOpen(h)
    /\ conn' = [conn EXCEPT !.handles[h] = "closed", !.db = NoHandle]
    /\ OnlyConn

\* Another context asks for a version change and `versionchange` is fired at
\* the open connection h: the handler of lines 102-105 calls
\* state.db.close(), which closes that connection and fires no event; with
\* state.db null the call throws inside the handler.
VersionChange(h) ==
    /\ IsOpen(h)
    /\ conn' = IF conn.db = NoHandle THEN conn
               ELSE [conn EXCEPT !.handles[conn.db] = "closed"]
    /\ OnlyConn

\* The start of a store operation (lines 128-131 of _getAll, and the same
\* in _get, _put and _delete): without a handle it rejects, else it asks
\* the handle for a transaction, which throws on a closed connection.
StoreOperation(c) ==
    /\ conn.calls[c].pc = "idle"
    /\ conn' = [conn EXCEPT !.calls[c] =
                   IF conn.db = NoHandle
                   THEN Call("rejected", "operation", NoHandle, "Database not initialized", FALSE)
                   ELSE IF IsOpen(conn.db)
                   THEN Call("resolved", "operation", conn.db, "", FALSE)
                   ELSE Call("rejected", "operation", conn.db, "InvalidStateError", TRUE)]
    /\ OnlyConn

\* The caller has seen how its call settled.
CallSettled(c) ==
    /\ conn.calls[c].pc \in {"resolved", "rejected"}
    /\ conn' = [conn EXCEPT !.calls[c] = NoCall]
    /\ OnlyConn

InitConn ==
    /\ ConnInit /\ TreeIdle /\ WrittenIdle /\ SchemaIdle /\ FrontIdle
    /\ FetchIdle /\ CodecIdle /\ NormIdle /\ StoreIdle /\ SyncIdle

NextConn ==
    \/ \E c \in Callers : InitReturnsHandle(c)
    \/ \E c \in Callers : InitOpens(c)
    \/ \E c \in Callers : OpenSuccess(c)
    \/ \E c \in Callers : OpenError(c)
    \/ \E h \in DOMAIN conn.handles : ConnectionClosed(h)
    \/ \E h \in DOMAIN conn.handles : VersionChange(h)
    \/ \E c \in Callers : StoreOperation(c)
    \/ \E c \in Callers : CallSettled(c)

SpecConn == InitConn /\ [][NextConn]_vars

-----------------------------------------------------------------------------
(* The store operations behind the shared connection: every operation      *)
(* starts with the test of state.db (storageConcept.js lines 128-130, 167, *)
(* 190, 208, 307, 355-357) and then asks the handle for a transaction      *)
(* (lines 131, 168, 191, 209, 308, 358).                                   *)

NotInitialized == "Database not initialized"

\* A version of the operations without the test of state.db.
WithHandleUntested(c, pc, Operation) == Operation

\* An operation of a caller at position pc: rejected when state.db is
\* null, thrown out by db.transaction when the connection is closed, and
\* carried out otherwise.
WithHandle(c, pc, Operation) ==
    IF conn.db = NoHandle
    THEN /\ callers[c].pc = pc
         /\ callers' = [callers EXCEPT ![c] = Rejected(NotInitialized, EmptyObj)]
         /\ UNCHANGED <<stores, keyGen>>
         /\ OnlyStore
    ELSE IF conn.handles[conn.db] # "open"
    THEN /\ callers[c].pc = pc
         /\ callers' = [callers EXCEPT ![c] = Rejected("InvalidStateError", EmptyObj)]
         /\ UNCHANGED <<stores, keyGen>>
         /\ OnlyStore
    ELSE Operation

\* addDiagram: its first _put (line 230) and its second (line 234).
GuardedAddDiagramPut1(c, diagramData) ==
    WithHandle(c, "idle", AddDiagramPut1(c, diagramData))

GuardedAddDiagramPut2(c) ==
    WithHandle(c, "addDiagram", AddDiagramPut2(c))

\* getDiagram (line 242, _get), getAllProjects (lines 150-156, _getAll),
\* getDiagramsByProjectId (lines 353-372).
GuardedGetDiagram(c, diagramId) ==
    WithHandle(c, "idle", GetDiagram(c, diagramId))

GuardedGetAllProjects(c) ==
    WithHandle(c, "idle", GetAllProjects(c))

GuardedGetDiagramsByProjectId(c, projectId) ==
    WithHandle(c, "idle", GetDiagramsByProjectId(c, projectId))

\* updateDiagram (lines 249-252, _put).
GuardedUpdateDiagram(c, title) ==
    WithHandle(c, "holding", UpdateDiagram(c, title))

\* deleteDiagram (line 266, _delete) and deleteDiagramsByProjectId (lines
\* 305-324), called by an idle caller.
GuardedDeleteDiagram(c, diagramId) ==
    WithHandle(c, "idle", callers[c].pc = "idle" /\ DeleteDiagram(diagramId))

GuardedDeleteDiagramsByProjectId(c, projectId) ==
    WithHandle(c, "idle", callers[c].pc = "idle" /\ DeleteDiagramsByProjectId(projectId))

\* The application's start-up code calls init() and waits for it.
Starter == CHOOSE c \in Callers : TRUE

Connect == InitOpens(Starter) \/ OpenSuccess(Starter) \/ CallSettled(Starter)

\* The diagrams the guarded operations are tried with: those of one project.
GuardedInputs == { d \in DiagramInputs : d["projectId"] = 1 }

InitGuarded ==
    /\ StoreInit /\ ConnInit /\ TreeIdle /\ WrittenIdle /\ SchemaIdle /\ FrontIdle
    /\ FetchIdle /\ CodecIdle /\ NormIdle /\ SyncIdle

NextGuarded ==
    \/ Connect
    \/ \E h \in DOMAIN conn.handles : ConnectionClosed(h)
    \/ \E h \in DOMAIN conn.handles : VersionChange(h)
    \/ \E c \in Callers, d \in GuardedInputs : GuardedAddDiagramPut1(c, d)
    \/ \E c \in Callers : GuardedAddDiagramPut2(c)
    \/ \E c \in Callers, id \in 1..MaxDiagramKey : GuardedGetDiagram(c, id)
    \/ \E c \in Callers : GuardedGetAllProjects(c)
    \/ \E c \in Callers : GuardedGetDiagramsByProjectId(c, 1)
    \/ \E c \in Callers, t \in Titles : GuardedUpdateDiagram(c, t)
    \/ \E c \in Callers, id \in 1..MaxDiagramKey : GuardedDeleteDiagram(c, id)
    \/ \E c \in Callers : GuardedDeleteDiagramsByProjectId(c, 1)

SpecGuarded == InitGuarded /\ [][NextGuarded]_vars

-----------------------------------------------------------------------------
(* addDiagram and addProject (storageConcept.js lines 224-235, 273-281)    *)
(* given records that carry an id.                                         *)

WithIds(inputs, ids) ==
    inputs \cup { Spread(d, "id" :> k) : d \in inputs, k \in ids }

UpsertDiagramInputs == WithIds(GuardedInputs, 1..MaxDiagramKey)

UpsertProjectInputs == WithIds(ProjectInputs, 1..MaxProjectsAlone)

NextUpsert ==
    \/ \E c \in Callers, p \in UpsertProjectInputs : AddProjectPut1(c, p)
    \/ \E c \in Callers : AddProjectPut2(c)
    \/ \E c \in Callers, d \in UpsertDiagramInputs : AddDiagramPut1(c, d)
    \/ \E c \in Callers : AddDiagramPut2(c)
    \/ \E id \in 1..MaxDiagramKey : DeleteDiagram(id)
    \/ \E p \in 1..MaxProjectsAlone : DeleteProject(p)
    \/ Reload

SpecUpsert == Init /\ [][NextUpsert]_vars

-----------------------------------------------------------------------------
(* The diagram concept (diagramConcept.js, src/unnamed/part_004): its      *)
(* state { diagrams, currentDiagram } and the events its actions notify.   *)
(* dc holds the state, the call of listen() taken last (heard) and the     *)
(* events that call notified, each with state.currentDiagram as it was     *)
(* when the event was notified.                                            *)

\* `null` as an id (line 150); currentDiagram null is NoDiagram.
Null == -3

NoDiagram == EmptyObj

TruthyId(id) == TruthyNum(id) /\ id # Null

MaxDcId == 2

DcContents == {"graph TD", "graph LR"}

\* The diagrams of a loaded list, and the diagrams do:loadDiagram brings.
ListedDiagrams ==
    { ("id" :> i) @@ ("name" :> "A") @@ ("content" :> "graph TD") @@ ("projectId" :> p) :
        i \in 1..MaxDcId, p \in {1, Undefined} }

LoadedDiagrams ==
    { ("id" :> i) @@ ("name" :> "A") @@ ("content" :> text) @@ ("projectId" :> p) :
        i \in 1..MaxDcId, text \in DcContents, p \in {1, Undefined} }

\* A loaded list: records of the store, no two with the same id.
DiagramLists ==
    {<<>>} \cup { <<d>> : d \in ListedDiagrams }
           \cup { list \in { <<d, e>> : d \in ListedDiagrams, e \in ListedDiagrams } :
                     list[1]["id"] # list[2]["id"] }

Event(name, payload, current) ==
    [event |-> name, payload |-> payload, current |-> current]

DcState(list, current, events) ==
    [diagrams |-> list, currentDiagram |-> current, emitted |-> events]

\* bus.notify(name, payload) by an action in state st.
Notify(st, name, payload) ==
    [st EXCEPT !.emitted = Append(@, Event(name, payload, st.currentDiagram))]

\* state.currentDiagram?.id
CurrentId(current) == IF current = NoDiagram THEN Undefined ELSE current["id"]

\* Lines 32-44.
_setDiagrams(st, list) ==
    LET set == [st EXCEPT !.diagrams = list]
        told == Notify(set, "diagramsUpdated",
                       ("diagrams" :> list)
                         @@ ("currentDiagramId" :> CurrentId(set.currentDiagram)))
    IN IF told.currentDiagram = NoDiagram
       THEN Notify(told, "diagramContentLoaded", "diagram" :> NoDiagram)
       ELSE told

\* Lines 21-30.
_loadDiagrams(st, projectId) ==
    IF TruthyId(projectId)
    THEN Notify(st, "do:listDiagrams", "projectId" :> projectId)
    ELSE LET cleared == [_setDiagrams(st, <<>>) EXCEPT !.currentDiagram = NoDiagram]
         IN Notify(cleared, "diagramContentLoaded", "diagram" :> NoDiagram)

\* Lines 148-156.
_initializeUnsavedDiagram(st, text) ==
    LET made == IF st.currentDiagram = NoDiagram
                THEN [st EXCEPT !.currentDiagram =
                        ("id" :> Null) @@ ("name" :> "") @@ ("content" :> text)]
                ELSE st
    IN Notify(made, "diagramContentLoaded", "diagram" :> made.currentDiagram)

\* Lines 46-53.
_setCurrentDiagram(st, diagramId) ==
    IF TruthyId(diagramId)
    THEN Notify(st, "do:loadDiagram", "diagramId" :> diagramId)
    ELSE _initializeUnsavedDiagram(st, "")

\* A version of lines 55-62 that notifies the list first.
_handleDiagramLoadedListFirst(st, diagram) ==
    LET told == Notify(st, "diagramsUpdated",
                       ("diagrams" :> st.diagrams)
                         @@ ("currentDiagramId" :> CurrentId(st.currentDiagram)))
        set == [told EXCEPT !.currentDiagram = diagram]
    IN Notify(set, "diagramContentLoaded", "diagram" :> diagram)

\* Lines 55-62.
_handleDiagramLoaded(st, diagram) ==
    LET set == [st EXCEPT !.currentDiagram = diagram]
        told == Notify(set, "diagramContentLoaded", "diagram" :> diagram)
    IN Notify(told, "diagramsUpdated",
              ("diagrams" :> told.diagrams)
                @@ ("currentDiagramId" :> CurrentId(told.currentDiagram)))

\* A version of lines 73-92 that saves whatever is current.
_saveCurrentDiagramAlways(st) ==
    IF st.currentDiagram = NoDiagram THEN st
    ELSE Notify(st, "do:saveDiagram", "diagramData" :> st.currentDiagram)

\* Lines 73-92.
_saveCurrentDiagram(st) ==
    IF st.currentDiagram = NoDiagram THEN st
    ELSE IF TruthyId(st.currentDiagram["id"])
    THEN Notify(st, "do:saveDiagram", "diagramData" :> st.currentDiagram)
    ELSE Notify(st, "do:showNewDiagramModal", EmptyObj)

\* Lines 121-127.
_updateCurrentDiagramContent(st, text) ==
    LET set == IF st.currentDiagram # NoDiagram
               THEN [st EXCEPT !.currentDiagram = Spread(@, "content" :> text)]
               ELSE st
    IN Notify(set, "diagramContentChanged", "content" :> text)

\* Lines 129-133.
_handleDiagramSaved(st, savedDiagram) ==
    _loadDiagrams(st, Prop(savedDiagram, "projectId", Undefined))

\* state.diagrams.find(d => d.id === diagramId)?.projectId
FindProjectId(list, diagramId) ==
    LET hits == { k \in 1..Len(list) : list[k]["id"] = diagramId }
    IN IF hits = {} THEN Undefined
       ELSE Prop(list[CHOOSE k \in hits : \A j \in hits : k <= j], "projectId", Undefined)

\* A version of lines 135-146 that reloads the list whatever was deleted.
_handleDiagramDeletedReloading(st, diagramId) ==
    LET dropped == IF CurrentId(st.currentDiagram) = diagramId
                   THEN Notify([st EXCEPT !.currentDiagram = NoDiagram],
                               "diagramContentLoaded", "diagram" :> NoDiagram)
                   ELSE st
    IN Notify(dropped, "do:listDiagrams",
              "projectId" :> FindProjectId(dropped.diagrams, diagramId))

\* Lines 135-146.
_handleDiagramDeleted(st, diagramId) ==
    LET dropped == IF CurrentId(st.currentDiagram) = diagramId
                   THEN Notify([st EXCEPT !.currentDiagram = NoDiagram],
                               "diagramContentLoaded", "diagram" :> NoDiagram)
                   ELSE st
        projectId == FindProjectId(dropped.diagrams, diagramId)
    IN IF TruthyId(projectId) THEN _loadDiagrams(dropped, projectId) ELSE dropped

\* Lines 158-160 and 5-10.
_reset(st) == DcState(<<>>, NoDiagram, <<>>)

\* diagramConcept.listen(event, payload), lines 185-191: the action runs on
\* the state as it is, and what it notifies is what this call emitted.
Called == DcState(dc.diagrams, dc.currentDiagram, <<>>)

Settled(event, payload, after) ==
    [diagrams |-> after.diagrams, currentDiagram |-> after.currentDiagram,
     emitted |-> after.emitted, heard |-> [event |-> event, payload |-> payload]]

OnlyDc ==
    UNCHANGED <<fetchVars, codecVars, normVars, storeVars, syncVars,
                tree, written, schema, conn, bus, ui>>

ListenLoadDiagrams(projectId) ==
    /\ dc' = Settled("loadDiagrams", "projectId" :> projectId,
                     _loadDiagrams(Called, projectId))
    /\ OnlyDc

ListenSetDiagrams(list) ==
    /\ dc' = Settled("setDiagrams", list, _setDiagrams(Called, list))
    /\ OnlyDc

ListenSetCurrentDiagram(diagramId) ==
    /\ dc' = Settled("setCurrentDiagram", "diagramId" :> diagramId,
                     _setCurrentDiagram(Called, diagramId))
    /\ OnlyDc

ListenHandleDiagramLoaded(diagram) ==
    /\ dc' = Settled("handleDiagramLoaded", diagram, _handleDiagramLoaded(Called, diagram))
    /\ OnlyDc

ListenSaveCurrentDiagram ==
    /\ dc' = Settled("saveCurrentDiagram", EmptyObj, _saveCurrentDiagram(Called))
    /\ OnlyDc

ListenUpdateCurrentDiagramContent(text) ==
    /\ dc' = Settled("updateCurrentDiagramContent", "content" :> text,
                     _updateCurrentDiagramContent(Called, text))
    /\ OnlyDc

ListenHandleDiagramSaved(savedDiagram) ==
    /\ dc' = Settled("handleDiagramSaved", savedDiagram,
                     _handleDiagramSaved(Called, savedDiagram))
    /\ OnlyDc

ListenInitializeUnsavedDiagram(text) ==
    /\ dc' = Settled("initializeUnsavedDiagram", "content" :> text,
                     _initializeUnsavedDiagram(Called, text))
    /\ OnlyDc

ListenHandleDiagramDeleted(diagramId) ==
    /\ dc' = Settled("handleDiagramDeleted", "diagramId" :> diagramId,
                     _handleDiagramDeleted(Called, diagramId))
    /\ OnlyDc

ListenReset ==
    /\ dc' = Settled("reset", EmptyObj, _reset(Called))
    /\ OnlyDc

\* Lines 5-10: the state of the module when it has been loaded.
DcInit ==
    dc = [diagrams |-> <<>>, currentDiagram |-> NoDiagram, emitted |-> <<>>,
          heard |-> [event |-> "", payload |-> EmptyObj]]

BackIdle ==
    /\ FetchIdle /\ CodecIdle /\ NormIdle /\ StoreIdle /\ SyncIdle
    /\ TreeIdle /\ WrittenIdle /\ SchemaIdle /\ ConnIdle

InitDiagrams == DcInit /\ BusIdle /\ UiIdle /\ BackIdle

NextDiagrams ==
    \/ \E p \in {1, Undefined} : ListenLoadDiagrams(p)
    \/ \E list \in DiagramLists : ListenSetDiagrams(list)
    \/ \E id \in (1..MaxDcId) \cup {Undefined} : ListenSetCurrentDiagram(id)
    \/ \E d \in LoadedDiagrams : ListenHandleDiagramLoaded(d)
    \/ ListenSaveCurrentDiagram
    \/ \E text \in DcContents : ListenUpdateCurrentDiagramContent(text)
    \/ \E d \in LoadedDiagrams : ListenHandleDiagramSaved(d)
    \/ \E text \in DcContents : ListenInitializeUnsavedDiagram(text)
    \/ \E id \in 1..MaxDcId : ListenHandleDiagramDeleted(id)
    \/ ListenReset

SpecDiagrams == InitDiagrams /\ [][NextDiagrams]_vars

-----------------------------------------------------------------------------
(* createEventBus (eventBus.js lines 6-16): every bus has its own array of *)
(* subscribers. bus.subscribers holds the array of each bus created,       *)
(* bus.notified the notify call made last and bus.invoked the calls of     *)
(* subscriber functions that notify made, in order. The subscriber         *)
(* functions are told apart by number and return normally.                 *)

MaxBuses == 2
NumFns == 2
MaxSubscribers == 3

Fns == 1..NumFns
BusEvents == {"saved", "deleted"}
BusPayloads == {"hello", UndefStr}

Invocation(fn, event, payload) == [fn |-> fn, event |-> event, payload |-> payload]

\* A notify that calls each function once however often it was subscribed.
InvocationsOfDistinct(subscribers, event, payload) ==
    LET firsts == SelectSeq([k \in 1..Len(subscribers) |->
                               IF \E j \in 1..(k - 1) : subscribers[j] = subscribers[k]
                               THEN 0 ELSE subscribers[k]],
                            LAMBDA fn : fn # 0)
    IN [k \in 1..Len(firsts) |-> Invocation(firsts[k], event, payload)]

\* Line 14: subscribers.forEach(fn => fn(event, payload)).
Invocations(subscribers, event, payload) ==
    [k \in 1..Len(subscribers) |-> Invocation(subscribers[k], event, payload)]

NoNotify == [bus |-> 0, event |-> "", payload |-> UndefStr]

BusInit == bus = [subscribers |-> <<>>, notified |-> NoNotify, invoked |-> <<>>]

OnlyBus ==
    UNCHANGED <<fetchVars, codecVars, normVars, storeVars, syncVars,
                tree, written, schema, conn, dc, ui>>

\* createEventBus(), lines 6-7: a bus with an empty array of its own.
CreateEventBus ==
    /\ Len(bus.subscribers) < MaxBuses
    /\ bus' = [bus EXCEPT !.subscribers = Append(@, <<>>)]
    /\ OnlyBus

\* subscribe(fn), lines 9-11.
Subscribe(b, fn) ==
    /\ Len(bus.subscribers[b]) < MaxSubscribers
    /\ bus' = [bus EXCEPT !.subscribers[b] = Append(@, fn)]
    /\ OnlyBus

\* notify(event, payload), lines 12-14.
NotifyBus(b, event, payload) ==
    /\ bus' = [bus EXCEPT
                 !.notified = [bus |-> b, event |-> event, payload |-> payload],
                 !.invoked = Invocations(bus.subscribers[b], event, payload)]
    /\ OnlyBus

InitBus == BusInit /\ DcIdle /\ UiIdle /\ BackIdle

NextBus ==
    \/ CreateEventBus
    \/ \E b \in DOMAIN bus.subscribers, fn \in Fns : Subscribe(b, fn)
    \/ \E b \in DOMAIN bus.subscribers, event \in BusEvents, payload \in BusPayloads :
          NotifyBus(b, event, payload)

SpecBus == InitBus /\ [][NextBus]_vars

-----------------------------------------------------------------------------
(* uiConcept, the view state (uiConcept.js lines 15-28, 721-781). ui holds *)
(* the three fields of state that the tab and view handlers assign, the    *)
(* classes and widths they set on the page and the number of               *)
(* 'ui:renderDiagramRequested' events they emitted. The page starts with   *)
(* the code tab shown, as the initial state has it.                        *)

MaxRenders == 10

Tabs == {"code", "diagram"}
Views == {"code", "diagram", "split"}

\* Lines 15-26 (initialState), with the page as loaded.
UiInitialState ==
    [activeView |-> "code", activeTab |-> "code", isFullscreen |-> FALSE,
     codeTabActive |-> TRUE, diagramTabActive |-> FALSE,
     codeViewActive |-> TRUE, diagramViewActive |-> FALSE,
     splitViewActive |-> FALSE, halfWidths |-> FALSE, renders |-> 0]

\* Lines 733-735 and 752: notify('ui:renderDiagramRequested').
RenderRequested(st) == [st EXCEPT !.renders = @ + 1]

\* Lines 721-735.
_switchTab(st, tabName) ==
    LET isSplit == st.activeView = "split"
        named == [st EXCEPT !.activeTab = tabName]
        shown == IF ~isSplit
                 THEN [named EXCEPT !.codeTabActive = (tabName = "code"),
                                    !.diagramTabActive = (tabName = "diagram"),
                                    !.codeViewActive = (tabName = "code"),
                                    !.diagramViewActive = (tabName = "diagram")]
                 ELSE named
    IN IF tabName = "diagram" \/ isSplit THEN RenderRequested(shown) ELSE shown

\* Lines 737-767.
_toggleSplitView(st) ==
    IF st.activeView # "split"
    THEN RenderRequested([st EXCEPT !.activeView = "split",
                                    !.splitViewActive = TRUE,
                                    !.codeViewActive = TRUE,
                                    !.diagramViewActive = TRUE,
                                    !.halfWidths = TRUE])
    ELSE _switchTab([st EXCEPT !.activeView = st.activeTab,
                               !.splitViewActive = FALSE],
                    st.activeTab)

\* Lines 769-771.
_toggleFullscreen(st) == [st EXCEPT !.isFullscreen = ~st.isFullscreen]

OnlyUi ==
    UNCHANGED <<fetchVars, codecVars, normVars, storeVars, syncVars,
                tree, written, schema, conn, dc, bus>>

\* The handlers run while the count of render requests stays in bounds.
UiStep(after) ==
    /\ after.renders <= MaxRenders
    /\ ui' = after
    /\ OnlyUi

\* Lines 537-538: a click on the code tab or on the diagram tab.
SwitchTab(tabName) == UiStep(_switchTab(ui, tabName))

\* Line 539: a click on the split view button.
ToggleSplitView == UiStep(_toggleSplitView(ui))

ToggleFullscreen == UiStep(_toggleFullscreen(ui))

UiInit == ui = UiInitialState

InitUi == UiInit /\ DcIdle /\ BusIdle /\ BackIdle

NextUi ==
    \/ \E tabName \in Tabs : SwitchTab(tabName)
    \/ ToggleSplitView
    \/ ToggleFullscreen

SpecUi == InitUi /\ [][NextUi]_vars

-----------------------------------------------------------------------------
(* githubAdapter.getTreeSha: src/src/utils/eventBus.js lines 180-199, over *)
(* listContents (lines 149-151) and _githubFetch.                          *)

\* A path as its '/'-separated segments.
TreePaths == { <<"mermaid">>, <<"docs", "mermaid">> }

\* Line 184: path up to its last '/', '' when it has none.
ParentPath(path) == SubSeq(path, 1, Len(path) - 1)

Entry(path, type, sha) == [path |-> path, type |-> type, sha |-> sha]

\* The JSON of a 200 response to the listing of the parent: an array of
\* entries when the parent is a directory, an object describing the file
\* when it is a file.
ListingArray(entries) == [isArray |-> TRUE, entries |-> entries]
ListingObject == [isArray |-> FALSE, entries |-> <<>>]

TreeListings(path) ==
    { ListingArray(<<>>),
      ListingArray(<<Entry(path, "dir", "tree-sha-1")>>),
      ListingArray(<<Entry(path, "file", "blob-sha-1")>>),
      ListingArray(<<Entry(<<"src">>, "dir", "tree-sha-2")>>),
      ListingArray(<<Entry(<<"src">>, "dir", "tree-sha-2"),
                     Entry(path, "dir", "tree-sha-1")>>) }
      \cup (IF ParentPath(path) = <<>> THEN {} ELSE {ListingObject})

\* What the remote answers to the listing request: rate-limit responses and
\* then the listing, 404, a server or gateway error, or no response.
TreeAnswers ==
    { Resp(200, NoRetryAfter, <<>>),
      Resp(404, NoRetryAfter, <<"Not", "Found">>),
      Resp(500, NoRetryAfter, <<"Server", "Error">>),
      Resp(502, NoRetryAfter, <<"upstream", "returned", "404">>),
      Resp(0,   NoRetryAfter, <<>>) }

TreeScripts ==
    { [k \in 1..ScriptLen |->
         IF k <= n THEN Resp(429, NoRetryAfter, <<"rate", "limit", "exceeded">>)
         ELSE answer] :
      n \in 0..(ScriptLen - 1), answer \in TreeAnswers }

NoTreeResult == [kind |-> "pending", sha |-> UndefStr]
TreeNull == [kind |-> "null", sha |-> UndefStr]
TreeSha(sha) == [kind |-> "sha", sha |-> sha]
TreeThrows == [kind |-> "throw", sha |-> UndefStr]

\* error.message.includes('404') for the errors _githubFetch throws
\* (lines 113, 118 and 121) and for a rejection of fetch().
MessageIncludes404(err) ==
    /\ err.type \in {"api", "exhausted"}
    /\ \/ err.status = 404
       \/ \E k \in 1..Len(err.body) : err.body[k] = "404"

\* Line 187: the first entry with the path and type 'dir'.
RECURSIVE FindDir(_, _)
FindDir(entries, path) ==
    IF entries = <<>> THEN TreeNull
    ELSE IF Head(entries).path = path /\ Head(entries).type = "dir"
    THEN TreeSha(Head(entries).sha)
    ELSE FindDir(Tail(entries), path)

\* Lines 185-198 once listContents has settled.
TreeOutcome(path, listing, result) ==
    IF result.kind = "throw"
    THEN (IF MessageIncludes404(result) THEN TreeNull ELSE TreeThrows)
    ELSE IF result.kind = "null" \/ ~listing.isArray
    THEN TreeThrows   \* parentContents.find is not a function: a TypeError
    ELSE FindDir(listing.entries, path)

\* getTreeSha is called: line 186 calls listContents, that is _githubFetch
\* with the default retries and backoff.
TreeInit ==
    /\ \E path \in TreePaths : \E listing \in TreeListings(path) :
          tree = [pc |-> "calling", path |-> path, listing |-> listing,
                  result |-> NoTreeResult]
    /\ script \in TreeScripts
    /\ retries = DefaultRetries /\ backoff = DefaultBackoff
    /\ fetchPc = "loop" /\ loopI = 0 /\ requests = 0
    /\ lastError = NoError /\ waitTime = 0 /\ waits = <<>>
    /\ fetchResult = Pending

\* Lines 187-198: the listing, or the error, is turned into the result.
GetTreeShaSettle ==
    /\ tree.pc = "calling" /\ fetchPc = "done"
    /\ tree' = [tree EXCEPT !.pc = "done",
                    !.result = TreeOutcome(tree.path, tree.listing, fetchResult)]
    /\ UNCHANGED <<written, schema, conn, frontVars>>
    /\ UNCHANGED <<fetchVars, codecVars, normVars, storeVars, syncVars>>

InitTree ==
    /\ TreeInit /\ WrittenIdle /\ SchemaIdle /\ ConnIdle /\ FrontIdle
    /\ CodecIdle /\ NormIdle /\ StoreIdle /\ SyncIdle

NextTree == _githubFetch \/ GetTreeShaSettle

SpecTree == InitTree /\ [][NextTree]_vars

-----------------------------------------------------------------------------
(* Specifications of the pure components.                                  *)

InitFetch == FetchInit /\ CodecIdle /\ NormIdle /\ StoreIdle /\ SyncIdle /\ AuxIdle

NextFetch == _githubFetch

SpecFetch == InitFetch /\ [][NextFetch]_vars

\* Every request and every wait of the call completes.
SpecFetchLive == SpecFetch /\ WF_vars(NextFetch)

InitCodec == CodecInit /\ FetchIdle /\ NormIdle /\ StoreIdle /\ SyncIdle /\ AuxIdle

NextCodec == PutContentsEncode \/ GetContentsDecode

SpecCodec == InitCodec /\ [][NextCodec]_vars

InitNorm == NormInit /\ FetchIdle /\ CodecIdle /\ StoreIdle /\ SyncIdle /\ AuxIdle

NextNorm == Denormalize \/ Normalize \/ DenormalizeAgain

SpecNorm == InitNorm /\ [][NextNorm]_vars


-----------------------------------------------------------------------------
(* Claims about the pure components.                                       *)

\* The wait the claim expects before attempt k + 1: the doubling backoff,
\* or the Retry-After seconds when the header holds an integer.
ExpectedWait(k) ==
    IF script[k].retryAfter # NoRetryAfter /\ parseInt(script[k].retryAfter) # NaN
    THEN parseInt(script[k].retryAfter) * 1000
    ELSE DefaultBackoff * Pow2(k - 1)

\* C1: with retries = 3 and backoff = 1000, a call whose first three
\* responses are 429 and whose next response would be 200 resolves
\* successfully, and the waits between the attempts double (1000 ms, then
\* 2000 ms) unless a Retry-After header overrides them.
C1_ThreeRateLimitsThenOkResolves ==
    ( /\ fetchPc = "done"
      /\ retries = DefaultRetries /\ backoff = DefaultBackoff
      /\ \A k \in 1..3 : script[k].status = 429
      /\ script[4].status = 200 )
    => ( /\ fetchResult.kind = "json"
         /\ Len(waits) >= 2
         /\ waits[1] = ExpectedWait(1)
         /\ waits[2] = ExpectedWait(2) )

\* C2: decoding with getContents the base64 text that putContents produced
\* for a string yields exactly that string, multi-byte characters included.
C2_EncodeDecodeRoundTrip ==
    codecPc = "done" => decoded = content

\* C3: normalize(denormalize(R)) equals R field for field: exactly the keys
\* of R with the same values.
C3_NormalizeInvertsDenormalize ==
    normPc = "done" => simpleOut = simpleIn


-----------------------------------------------------------------------------
(* Claims about the record store.                                          *)

\* The simple view of a persisted diagram, as every read returns it.
Diagram(k) == normalizeDiagram(diagrams[k])

\* C4: after deleteProject(P.id) no persisted diagram has projectId = P.id:
\* the step that removes a project leaves no diagram of that project.
C4_DeleteProjectCascades ==
    [][ \A p \in ProjectIds :
          (p \in DOMAIN projects /\ p \notin DOMAIN projects')
          => \A k \in DOMAIN diagrams' : normalizeDiagram(diagrams'[k])["projectId"] # p
      ]_vars

\* C5: no two persisted diagrams with the same projectId have the same
\* title, whatever adds, reads, updates and deletes came before.
C5_TitleUniqueWithinProject ==
    \A j, k \in DOMAIN diagrams :
        (j # k /\ Diagram(j)["projectId"] = Diagram(k)["projectId"])
        => Diagram(j)["title"] # Diagram(k)["title"]

\* Some persisted diagram has the title and the projectId of the object.
TitleTaken(ld) ==
    \E k \in DOMAIN diagrams :
        /\ Diagram(k)["title"] = ld["schema:name"]
        /\ Diagram(k)["projectId"] = ld["projectId"]

\* Caller c has just had the first put of addDiagram settle: it went on to
\* the second put, or it was rejected with the object it tried to put.
AddDiagramAttempted(c) ==
    /\ callers[c].pc = "idle"
    /\ callers'[c] # callers[c]
    /\ \/ callers'[c].pc = "addDiagram"
       \/ /\ callers'[c].pc = "idle" /\ callers'[c].error # ""
          /\ ~Has(callers'[c].ld, "id")

\* C6: addDiagram of a title that a diagram of the same project already has
\* fails with a uniqueness error and leaves the diagrams store unchanged;
\* with a title no diagram of that project has, it does not fail.
C6_DuplicateTitleRejected ==
    [][ \A c \in Callers :
          AddDiagramAttempted(c)
          => IF TitleTaken(callers'[c].ld)
             THEN callers'[c].error = "ConstraintError" /\ diagrams' = diagrams
             ELSE callers'[c].error = ""
      ]_vars

\* C7: no persisted project or diagram is partially written: the URN in
\* its '@id' encodes the record's id.
C7_NoPartialRecord ==
    /\ \A k \in DOMAIN diagrams : UrnId(diagrams[k]["@id"]) = k
    /\ \A k \in DOMAIN projects : UrnId(projects[k]["@id"]) = k

StoreOfCall(op) == IF op = "addDiagram" THEN "diagrams" ELSE "projects"

\* C8: addProject / addDiagram of a record without an id takes an id no
\* record of the store has, resolves with that id, and when it resolves the
\* persisted record's id property and the URN in its '@id' are that id.
C8_AddAssignsIdAndReflectsIt ==
    [][ \A c \in Callers :
          /\ (callers[c].pc = "idle" /\ callers'[c].pc \in {"addDiagram", "addProject"})
             => callers'[c].newId \notin DOMAIN stores[StoreOfCall(callers'[c].pc)]
          /\ ( /\ callers[c].pc \in {"addDiagram", "addProject"}
               /\ callers'[c].pc = "idle" /\ callers'[c].error = ""
               /\ callers'[c].newId # Undefined )
             => LET store == stores'[StoreOfCall(callers[c].pc)]
                    id == callers'[c].newId
                IN /\ id = callers[c].newId
                   /\ id \in DOMAIN store
                   /\ store[id]["id"] = id
                   /\ UrnId(store[id]["@id"]) = id
      ]_vars

\* An addProject has resolved with id 1 (no diagram was ever put, so the
\* settled call is no update) and the project is persisted under that id.
C8_Witness ==
    /\ keyGen["diagrams"] = 1
    /\ \E c \in Callers : callers[c] = Resolved(1)
    /\ 1 \in DOMAIN projects
    /\ projects[1]["id"] = 1

\* C9: every persisted diagram's projectId is the id of a persisted project.
C9_ProjectIdReferencesProject ==
    \A k \in DOMAIN diagrams : Diagram(k)["projectId"] \in DOMAIN projects


\* C10: a mutation of a diagram of a remote-linked project and its queue
\* entry are persisted together: whenever the persisted content of such a
\* diagram is an edit, an item of the sync queue carries that edit.
C10_MutationAndQueueItemTogether ==
    \A k \in DOMAIN diagrams :
        (RemoteLinked(Diagram(k)) /\ Diagram(k)["content"] \in EditedContents)
        => \E q \in DOMAIN syncQueue :
              /\ syncQueue[q]["targetId"] = k
              /\ syncQueue[q]["payload"] = Diagram(k)["content"]


-----------------------------------------------------------------------------
(* Claims about the sync queue.                                            *)

\* C11: an item enqueued and not removed is still returned by
\* getSyncQueueItems after a restart, and the oldest pending item is the
\* first item the reader is given.
C11_PendingItemsSurviveRestart ==
    [][ (pass.pc = "restarted" /\ pass'.pc = "read")
        => LET items == pass'.items
           IN /\ \A i \in 1..Len(enqueued) :
                    \E j \in 1..Len(items) : items[j] = enqueued[i]
              /\ enqueued # <<>> => (items # <<>> /\ items[1] = enqueued[1])
      ]_vars

\* C12: getSyncQueueItems returns the pending items in the order in which
\* they were enqueued, whatever adds and deletes came before.
C12_QueueIsFifo ==
    _getAll("syncQueue") = enqueued

\* C13: addSyncQueueItem never replaces or removes a pending item: every
\* item pending before the call is pending and unchanged after it and the
\* number of pending items grows by one; an item leaves the queue only
\* through deleteSyncQueueItem.
C13_QueueIsAppendOnly ==
    [][ /\ Len(enqueued') = Len(enqueued) + 1
           => /\ \A k \in DOMAIN syncQueue :
                    k \in DOMAIN syncQueue' /\ syncQueue'[k] = syncQueue[k]
              /\ Cardinality(DOMAIN syncQueue') = Cardinality(DOMAIN syncQueue) + 1
        /\ (\E k \in DOMAIN syncQueue :
               k \notin DOMAIN syncQueue' \/ syncQueue'[k] # syncQueue[k])
           => Len(enqueued') < Len(enqueued)
      ]_vars


-----------------------------------------------------------------------------
(* Claims about the sync pass.                                             *)

\* C14: a putContents whose sha is stale is answered 409 and yields a
\* conflict at once, with no wait, no further request and the remote file
\* left as it is; the engine ends the pass with a conflict, leaves the item
\* in the queue and processes no later item in that pass.
C14_StaleShaConflictStopsPass ==
    [][ /\ ( /\ pass.pc = "calling" /\ requests' = requests + 1
             /\ script[requests'].status = 409 )
           => /\ fetchPc' = "done"
              /\ fetchResult' = Thrown("api", 409, script[requests'].body)
              /\ waits' = waits
              /\ remote' = remote
        /\ ( /\ pass.pc = "calling" /\ fetchPc = "done"
             /\ fetchResult.type = "api" /\ fetchResult.status = 409
             /\ pass' # pass )
           => /\ pass' = PassState("error", <<>>, "conflict")
              /\ syncQueue' = syncQueue
              /\ Head(pass.items)["id"] \in DOMAIN syncQueue
              /\ remote' = remote
        /\ (pass.pc = "error" /\ pass'.pc = "error")
           => /\ requests' = requests
              /\ syncQueue' = syncQueue
      ]_vars

\* A pass has ended with a conflict: the remote file has changed since the
\* hash was recorded and both items are still in the queue.
C14_Witness ==
    /\ pass = PassState("error", <<>>, "conflict")
    /\ fetchResult.status = 409
    /\ remote.version = 2
    /\ LastKnownSha(1) = ShaOf(1)
    /\ DOMAIN syncQueue = {1, 2}

-----------------------------------------------------------------------------
(* Claims about the adapter's retry policy.                                *)

\* C16: a response that is not successful and whose status is neither 403
\* nor 429 ends the call at once: it is requested once, no wait follows
\* it, and the error carries the provider's status code and message; when
\* it is the first response the call has made exactly one request.
C16_OtherErrorFailsImmediately ==
    ( /\ requests >= 1
      /\ script[requests].status \notin {0, 403, 429}
      /\ ~(script[requests].status \in 200..299) )
    => /\ fetchPc = "done"
       /\ fetchResult = Thrown("api", script[requests].status, script[requests].body)
       /\ Len(waits) = requests - 1
       /\ \A k \in 1..(requests - 1) : script[k].status \in {403, 429}

\* A 404 was the first response of a call with three attempts.
C16_Witness ==
    /\ fetchPc = "done" /\ retries = DefaultRetries
    /\ requests = 1 /\ script[1].status = 404 /\ waits = <<>>
    /\ fetchResult.status = 404

\* C17: every call terminates, returning a result or raising an error, and
\* never issues more than `retries` requests.
C17_CallTerminatesWithinAttempts ==
    /\ [](requests <= retries)
    /\ <>(fetchPc = "done" /\ fetchResult.kind \in {"json", "null", "throw"})

\* A call has used all three attempts and raised.
C17_Witness ==
    /\ fetchPc = "done" /\ retries = DefaultRetries /\ requests = DefaultRetries
    /\ fetchResult.type = "exhausted"

\* The Retry-After hints among the responses that hold an integer.
HintSeconds(r) == IF r.retryAfter = <<"2">> THEN 2 ELSE Undefined

\* C18: the wait after the i-th rate-limited response (i from 0) is
\* backoff * 2^i, or N * 1000 when the response's Retry-After holds the
\* integer N.
C18_WaitsDoubleUnlessRetryAfter ==
    \A k \in 1..Len(waits) :
        waits[k] = IF HintSeconds(script[k]) # Undefined
                   THEN HintSeconds(script[k]) * 1000
                   ELSE IF k = 1 THEN backoff
                   ELSE IF k = 2 THEN backoff * 2
                   ELSE IF k = 3 THEN backoff * 4
                   ELSE backoff * 8

\* Three waits, the second set by a Retry-After of 2 seconds.
C18_Witness ==
    /\ backoff = DefaultBackoff
    /\ script[2].retryAfter = <<"2">> /\ script[3].retryAfter = NoRetryAfter
    /\ script[1].retryAfter = <<"s", "o", "o", "n">>
    /\ waits = <<1000, 2000, 4000>>

\* C19: once the attempts are used up, a call whose responses were all 429
\* raises the still-rate-limited error and never the token-scope error, and
\* a call whose responses were all 403 raises the token-scope error.
C19_ExhaustedErrorTellsCauses ==
    (fetchPc = "done" /\ requests >= 1 /\ requests = retries
       /\ \A k \in 1..requests : script[k].status \in {403, 429})
    => /\ (\A k \in 1..requests : script[k].status = 429)
            => fetchResult.type = "exhausted"
       /\ (\A k \in 1..requests : script[k].status = 403)
            => fetchResult.type = "scope"

\* C20: a request that fails at network level ends the call at once: the
\* failure is raised, no wait follows it and no further request is made.
C20_NetworkFailurePropagates ==
    (requests >= 1 /\ script[requests].status = 0)
    => /\ fetchPc = "done"
       /\ fetchResult = Thrown("network", 0, <<>>)
       /\ Len(waits) = requests - 1

\* The second request of a call with three attempts got no response.
C20_Witness ==
    /\ fetchPc = "done" /\ retries = DefaultRetries
    /\ requests = 2 /\ script[1].status = 429 /\ script[2].status = 0
    /\ fetchResult.type = "network"


-----------------------------------------------------------------------------
(* Claims about getTreeSha.                                                *)

\* C21: getTreeSha returns null when the parent listing has no directory
\* entry with the path and when the parent path is not found (404), the
\* entry's sha when the directory exists, and raises an error on any other
\* failure of the provider.
C21_TreeShaNullOnlyWhenMissing ==
    (tree.pc = "done" /\ requests >= 1)
    => LET answer == script[requests]
       IN /\ (answer.status = 200 /\ tree.listing.isArray)
                => tree.result =
                     (IF \E k \in 1..Len(tree.listing.entries) :
                            /\ tree.listing.entries[k].path = tree.path
                            /\ tree.listing.entries[k].type = "dir"
                      THEN TreeSha("tree-sha-1") ELSE TreeNull)
          /\ answer.status = 404 => tree.result = TreeNull
          /\ answer.status \notin {200, 404} => tree.result = TreeThrows


-----------------------------------------------------------------------------
(* Claims about the normalization layer in the store.                      *)

\* C22: every persisted record's index field _name_for_index equals the
\* record's current name (projects) or title (diagrams), also after a
\* record that was read from the store is renamed and written back.
C22_IndexFieldMirrorsName ==
    /\ \A k \in DOMAIN diagrams :
          Prop(diagrams[k], "_name_for_index", UndefStr) = normalizeDiagram(diagrams[k])["title"]
    /\ \A k \in DOMAIN projects :
          Prop(projects[k], "_name_for_index", UndefStr) = normalizeProject(projects[k])["name"]


\* C23: denormalize is idempotent: converting a converted record returns
\* it unchanged.
C23_DenormalizeIdempotent ==
    normPc = "again" => ldAgain = ldDoc

\* A project record with an id was converted twice.
C23_Witness ==
    /\ normPc = "again" /\ normKind = "project"
    /\ Has(simpleIn, "id") /\ simpleIn["name"] = "Demo"
    /\ ldAgain = ldDoc /\ ldAgain["schema:name"] = "Demo"


\* The semantic markers and namespaced properties of the stored shape.
SemanticMarkers ==
    {"@context", "@type", "@id", "schema:name", "schema:text",
     "schema:dateCreated", "schema:dateModified", "bfo:BFO_0000129"}

\* C24: every record a caller was given by getProject, getAllProjects,
\* getDiagram or getDiagramsByProjectId is in the simple shape: it has none
\* of the semantic markers or namespaced properties.
C24_ReadsReturnSimpleShape ==
    \A c \in Callers :
        callers[c].pc \in {"holding", "holdingProject"}
        => /\ (DOMAIN callers[c].ld) \cap SemanticMarkers = {}
           /\ Has(callers[c].ld, IF callers[c].pc = "holding" THEN "title" ELSE "name")

\* One caller holds a project it read, the other a diagram it read.
C24_Witness ==
    \E c, d \in Callers :
        /\ callers[c].pc = "holdingProject" /\ callers[c].ld["name"] = "Demo"
        /\ callers[d].pc = "holding" /\ callers[d].ld["title"] = "A"
        /\ Has(projects[1], "@context") /\ Has(diagrams[1], "@context")


-----------------------------------------------------------------------------
(* Claims about the projects store.                                        *)

\* The simple view of a persisted project, as every read returns it.
Project(k) == normalizeProject(projects[k])

\* C26: no two persisted projects have the same name, whatever adds, reads,
\* updates (renames of a record obtained from a read included) and deletes
\* came before.
C26_ProjectNameUnique ==
    \A j, k \in DOMAIN projects :
        j # k => Project(j)["name"] # Project(k)["name"]

-----------------------------------------------------------------------------
(* Claims about the lookup of diagrams by project.                         *)

\* What a caller looks at in a diagram record.
DiagramView(r) ==
    [id |-> r["id"], projectId |-> r["projectId"], title |-> r["title"],
     content |-> r["content"]]

\* The diagrams of project p as they were last written.
WrittenTo(p) ==
    { [id |-> k, projectId |-> p, title |-> written[k].title,
       content |-> written[k].content] :
        k \in { j \in DOMAIN written : written[j].projectId = p } }

\* C25: getDiagramsByProjectId(p) returns exactly the persisted diagrams
\* whose projectId is p, each with the title and content it was last
\* written with, and nothing for a project without diagrams; a record a
\* caller was given by it is one of them.
C25_LookupReturnsProjectDiagrams ==
    /\ \A p \in ProjectIds :
          /\ { DiagramView(r) : r \in DiagramsByProjectId(p) } = WrittenTo(p)
          /\ Cardinality(DiagramsByProjectId(p)) = Cardinality(WrittenTo(p))
    /\ \A c \in Callers :
          callers[c].pc = "holding"
          => DiagramView(callers[c].ld) \in WrittenTo(callers[c].ld["projectId"])

\* A caller was given the renamed diagram of project 1 while project 2 has
\* a diagram of its own.
C25_Witness ==
    /\ DOMAIN written = {1, 2}
    /\ written[1].projectId = 1 /\ written[2].projectId = 2
    /\ written[1].title = "B" /\ diagrams[1]["_name_for_index"] = "A"
    /\ \E c \in Callers :
          /\ callers[c].pc = "holding"
          /\ callers[c].ld["id"] = 1 /\ callers[c].ld["title"] = "B"


-----------------------------------------------------------------------------
(* Claims about the schema upgrade.                                        *)

\* C28: a run of the upgrade routine changes no record of a store the
\* database had (projects, diagrams and syncQueue included), leaves the
\* stores it does not recognise and their indexes as they were, and a run
\* on the result of a committed run changes no store, index or record.
C28_UpgradeIdempotentAndLossless ==
    [][ schema'.runs = schema.runs + 1
        => /\ \A n \in DOMAIN stores : n \in DOMAIN stores' /\ stores'[n] = stores[n]
           /\ DOMAIN stores' \ StoreNames = DOMAIN stores \ StoreNames
           /\ \A n \in DOMAIN schema.indexes \ StoreNames :
                 schema'.indexes[n] = schema.indexes[n]
           /\ schema.committed
                 => (stores' = stores /\ schema'.indexes = schema.indexes) ]_vars

\* The routine has run twice on a database that came with records of
\* projects and with a store of another application.
C28_Witness ==
    /\ schema.runs = 2 /\ schema.committed
    /\ ForeignStore \in DOMAIN stores /\ DOMAIN stores[ForeignStore] # {}
    /\ "projects" \in DOMAIN stores /\ 1 \in DOMAIN stores["projects"]


-----------------------------------------------------------------------------
(* Claims about the shared connection.                                     *)

OpeningCalls == { c \in Callers : conn.calls[c].pc = "opening" }

OpenHandles == { h \in DOMAIN conn.handles : conn.handles[h] = "open" }

\* C29: at most one connection is opened and shared: an init() called while
\* state.db holds a handle resolves with that handle and issues no open,
\* and at no time is more than one open request outstanding or more than
\* one connection open.
C29_OneSharedConnection ==
    [][ /\ \A c \in Callers :
              (/\ conn.db # NoHandle
               /\ conn.calls[c].pc = "idle"
               /\ conn'.calls[c].op = "init")
              => /\ conn'.calls[c] = Call("resolved", "init", conn.db, "", conn'.calls[c].stale)
                 /\ conn'.opens = conn.opens
        /\ Cardinality({ c \in Callers : conn'.calls[c].pc = "opening" }) <= 1
        /\ Cardinality({ h \in DOMAIN conn'.handles : conn'.handles[h] = "open" }) <= 1
      ]_vars

\* C30: whenever the connection behind state.db is closed, state.db is
\* null, and no operation and no init() has used or returned a closed
\* handle.
C30_ClosedHandleInvalidated ==
    /\ conn.db # NoHandle => conn.handles[conn.db] = "open"
    /\ \A c \in Callers : ~conn.calls[c].stale


\* C31: after the browser has closed the connection and state.db has been
\* set to null, the next store operation reopens the connection and
\* succeeds: it does not reject, and state.db holds an open connection
\* again.
C31_StoreSelfHeals ==
    [][ \A c \in Callers :
           (/\ conn.db = NoHandle
            /\ Len(conn.handles) > 0
            /\ conn.calls[c].pc = "idle"
            /\ conn'.calls[c].op = "operation")
           => /\ conn'.calls[c].pc = "resolved"
              /\ conn'.db # NoHandle
              /\ conn'.handles[conn'.db] = "open" ]_vars


\* C36: a store operation invoked while state.db is null rejects with the
\* 'Database not initialized' error, hands its caller no record, and
\* leaves the stores and their key generators as they were.
C36_NullHandleRejects ==
    [][ conn.db = NoHandle
        => /\ stores' = stores /\ keyGen' = keyGen
           /\ \A c \in Callers :
                 callers'[c] # callers[c]
                 => callers'[c] = Rejected(NotInitialized, EmptyObj) ]_vars

\* The connection was lost between the two puts of an addDiagram: the
\* second put was rejected and the record of the first put is still there.
C36_Witness ==
    /\ conn.db = NoHandle
    /\ \E c \in Callers : callers[c] = Rejected(NotInitialized, EmptyObj)
    /\ \E k \in DOMAIN diagrams : diagrams[k]["@id"] = Urn("diagram", Undefined)


-----------------------------------------------------------------------------
(* The waits of one adapter call.                                          *)

\* The rate-limited responses the call has received so far.
RateLimitedReceived == { k \in 1..requests : IsRateLimit(script[k]) }

\* C39: within one call the waits performed are as many as the rate-limited
\* responses received (one more response than waits while the wait for it
\* is still running), and a call that ends with the attempts used up has
\* waited after its last response too.
C39_OneWaitPerRateLimitedResponse ==
    /\ fetchPc \in {"loop", "done"} => Len(waits) = Cardinality(RateLimitedReceived)
    /\ fetchPc = "sleep" => Len(waits) + 1 = Cardinality(RateLimitedReceived)
    /\ (fetchPc = "done" /\ fetchResult.type \in {"exhausted", "scope"})
          => (Len(waits) = retries /\ requests = retries)

\* Two rate-limited responses used up the two attempts of a call, and the
\* error was raised after the second wait.
C39_Witness ==
    /\ fetchPc = "done" /\ fetchResult.kind = "throw"
    /\ retries = 2 /\ requests = 2 /\ Len(waits) = 2
    /\ IsRateLimit(script[1]) /\ IsRateLimit(script[2])


-----------------------------------------------------------------------------
(* Claims about addDiagram / addProject of a record that carries an id.    *)

\* The store an object belongs to.
StoreOfObject(ld) == IF ld["@type"] = DiagramType THEN "diagrams" ELSE "projects"

\* The first put of an addDiagram / addProject of caller c has just
\* settled, for an object whose id is that of a persisted record.
AddOverExisting(c) ==
    /\ callers[c].pc = "idle"
    /\ callers'[c] # callers[c]
    /\ callers'[c].ld # EmptyObj
    /\ HasOwnKey(callers'[c].ld)
    /\ callers'[c].ld["id"] \in DOMAIN stores[StoreOfObject(callers'[c].ld)]

\* The record was replaced by the object put: no failure, no new id, as
\* many records as before, none of the record's previous values kept.
Replaced(c) ==
    LET ld == callers'[c].ld
        n == StoreOfObject(ld)
    IN /\ callers'[c].error = ""
       /\ callers'[c].newId = ld["id"]
       /\ keyGen' = keyGen
       /\ DOMAIN stores'[n] = DOMAIN stores[n]
       /\ stores'[n][ld["id"]] = ld
       /\ \A k \in DOMAIN stores[n] \ {ld["id"]} : stores'[n][k] = stores[n][k]

-----------------------------------------------------------------------------
(* Claims about the diagram concept.                                       *)

\* The events of the last call named `name`.
Emitted(st, name) == { k \in 1..Len(st.emitted) : st.emitted[k].event = name }

\* C32: after listen('updateCurrentDiagramContent', {content: c}), from
\* any state, the current diagram's content is c and the call has emitted
\* diagramContentChanged with content c.
C32_UpdateContentSetsContent ==
    dc.heard.event = "updateCurrentDiagramContent"
    => /\ dc.currentDiagram # NoDiagram
       /\ dc.currentDiagram["content"] = dc.heard.payload["content"]
       /\ \E k \in Emitted(dc, "diagramContentChanged") :
             dc.emitted[k].payload["content"] = dc.heard.payload["content"]

\* C34: listen('saveCurrentDiagram') leaves the state as it was and emits
\* do:saveDiagram with the current diagram when that has an id, nothing
\* when no diagram is current, and do:showNewDiagramModal when the current
\* diagram has no id.
C34_SaveEmitsByCurrentDiagram ==
    [][ dc'.heard.event = "saveCurrentDiagram"
        => /\ dc'.diagrams = dc.diagrams
           /\ dc'.currentDiagram = dc.currentDiagram
           /\ dc'.emitted =
                IF dc.currentDiagram = NoDiagram THEN <<>>
                ELSE IF dc.currentDiagram["id"] # Null
                THEN <<Event("do:saveDiagram", "diagramData" :> dc.currentDiagram,
                             dc.currentDiagram)>>
                ELSE <<Event("do:showNewDiagramModal", EmptyObj, dc.currentDiagram)>>
      ]_vars

\* A save of the unsaved diagram asked for the new-diagram dialog.
C34_Witness ==
    /\ dc.heard.event = "saveCurrentDiagram"
    /\ dc.currentDiagram # NoDiagram /\ dc.currentDiagram["id"] = Null
    /\ Emitted(dc, "do:showNewDiagramModal") = {1}

\* C35: listen('handleDiagramLoaded', d) makes d the current diagram,
\* leaves the list as it was and emits diagramContentLoaded with d and then
\* diagramsUpdated with d.id; and every diagramsUpdated event of any call
\* carries the id of the diagram that was current when it was notified.
C35_LoadedDiagramIsAnnounced ==
    [][ /\ dc'.heard.event = "handleDiagramLoaded"
           => /\ dc'.currentDiagram = dc'.heard.payload
              /\ dc'.diagrams = dc.diagrams
              /\ Len(dc'.emitted) = 2
              /\ dc'.emitted[1].event = "diagramContentLoaded"
              /\ dc'.emitted[1].payload["diagram"] = dc'.heard.payload
              /\ dc'.emitted[2].event = "diagramsUpdated"
              /\ dc'.emitted[2].payload["currentDiagramId"] = dc'.heard.payload["id"]
        /\ \A k \in Emitted(dc', "diagramsUpdated") :
              dc'.emitted[k].payload["currentDiagramId"] = CurrentId(dc'.emitted[k].current)
      ]_vars

\* Diagram 2 was loaded while a list of two diagrams was shown.
C35_Witness ==
    /\ dc.heard.event = "handleDiagramLoaded"
    /\ Len(dc.diagrams) = 2
    /\ dc.currentDiagram # NoDiagram /\ dc.currentDiagram["id"] = 2

\* The deleted diagram is in the loaded list with a project id.
ListedWithProject(list, diagramId) ==
    \E k \in 1..Len(list) :
       list[k]["id"] = diagramId /\ list[k]["projectId"] # Undefined

\* C37: after listen('handleDiagramDeleted', {diagramId}) the current
\* diagram is null and diagramContentLoaded with a null diagram was emitted
\* when diagramId was the current diagram's id, and the current diagram is
\* unchanged otherwise; do:listDiagrams for the diagram's project is
\* emitted exactly when the diagram is in the loaded list with a project id.
C37_DeletedDiagramIsDropped ==
    [][ dc'.heard.event = "handleDiagramDeleted"
        => LET diagramId == dc'.heard.payload["diagramId"]
           IN /\ IF CurrentId(dc.currentDiagram) = diagramId
                 THEN /\ dc'.currentDiagram = NoDiagram
                      /\ \E k \in Emitted(dc', "diagramContentLoaded") :
                            dc'.emitted[k].payload["diagram"] = NoDiagram
                 ELSE dc'.currentDiagram = dc.currentDiagram
              /\ Emitted(dc', "do:listDiagrams") # {}
                    <=> ListedWithProject(dc.diagrams, diagramId)
              /\ \A k \in Emitted(dc', "do:listDiagrams") :
                    dc'.emitted[k].payload["projectId"]
                       = FindProjectId(dc.diagrams, diagramId)
              /\ Cardinality(Emitted(dc', "do:listDiagrams")) <= 1 ]_vars

\* The current diagram was deleted: it was dropped and its project's list
\* was asked for again.
C37_Witness ==
    /\ dc.heard.event = "handleDiagramDeleted"
    /\ dc.currentDiagram = NoDiagram
    /\ Len(dc.emitted) = 2
    /\ dc.emitted[1].event = "diagramContentLoaded"
    /\ dc.emitted[2].event = "do:listDiagrams"


-----------------------------------------------------------------------------
(* Claims about the event bus.                                             *)

\* The step is a notify: it is not a createEventBus or a subscribe.
IsNotify == bus'.subscribers = bus.subscribers

\* Every call notify made was given exactly the event and the payload.
ExactArguments ==
    \A k \in 1..Len(bus'.invoked) :
       /\ bus'.invoked[k].event = bus'.notified.event
       /\ bus'.invoked[k].payload = bus'.notified.payload

\* The functions subscribed to a bus, in the order in which each was
\* subscribed first.
InFirstOrder(subscribers) ==
    SelectSeq([k \in 1..Len(subscribers) |->
                 IF \E j \in 1..(k - 1) : subscribers[j] = subscribers[k]
                 THEN 0 ELSE subscribers[k]],
              LAMBDA fn : fn # 0)

-----------------------------------------------------------------------------
(* Claims about the view state of the UI concept.                          *)

C40_SplitOffRestoresTab ==
    [][ ui.activeView = "split" /\ ui'.activeView # "split"
        => ui'.activeView = ui'.activeTab ]_vars


====
